---- MODULE Spec2Model ----
(***************************************************************************)
(* Model of the template engine of github.com/dryaf/templates              *)
(* (src/templates.go, current version, lines 1-872): the registry built by *)
(* parseTemplates, the name resolution of ExecuteTemplate, the dynamic     *)
(* block dispatcher RenderBlockAsHTMLString and the RWMutex discipline.    *)
(*                                                                         *)
(* A Go string is modelled as the sequence of its bytes, each byte a       *)
(* one-character TLA+ string, so that prefix tests, searches, lengths and  *)
(* concatenations are computed and not assumed.                            *)
(***************************************************************************)
EXTENDS Naturals, Sequences, FiniteSets

VARIABLES
    fsys,       \* the template directory tree: layouts, pages, blocks
    cfg,        \* the exported configuration fields of Templates
    templates,  \* Templates.templates: the registry, key -> compiled unit
    lock,       \* Templates.templatesLock (sync.RWMutex)
    pc,         \* per goroutine: the position inside the running method
    call,       \* per goroutine: the method called and its arguments
    bld,        \* per goroutine: the locals of parseTemplates
    ret,        \* per goroutine: what the last method returned
    sink,       \* per goroutine: the bytes written to the io.Writer w
    installed,  \* history: the initial registry and every registry a
                \* successful parseTemplates produced
    setup,      \* Templates.funcMap, AddHeadlessCMSFuncMapHelpers and how far
                \* the construction of the engine has come
    heap        \* the memory cells pointers passed to the helpers point to

vars == <<fsys, cfg, templates, lock, pc, call, bld, ret, sink, installed, setup, heap>>

(***************************************************************************)
(* Strings                                                                 *)
(***************************************************************************)
HasPrefix(s, prefix) ==
    /\ Len(s) >= Len(prefix)
    /\ SubSeq(s, 1, Len(prefix)) = prefix

HasSuffix(s, suffix) ==
    /\ Len(s) >= Len(suffix)
    /\ SubSeq(s, Len(s) - Len(suffix) + 1, Len(s)) = suffix

Contains(s, sub) ==
    \E i \in 1..(Len(s) + 1) :
        /\ i + Len(sub) - 1 <= Len(s)
        /\ SubSeq(s, i, i + Len(sub) - 1) = sub

TrimSuffix(s, suffix) ==
    IF HasSuffix(s, suffix) THEN SubSeq(s, 1, Len(s) - Len(suffix)) ELSE s

\* The largest index of byte c in s, 0 when absent.
LastIndex(s, c) ==
    LET hits == {i \in 1..Len(s) : s[i] = c}
    IN  IF hits = {} THEN 0 ELSE CHOOSE i \in hits : \A j \in hits : j <= i

\* path.Ext: the suffix beginning at the final dot of the final element.
Ext(p) ==
    LET dot   == LastIndex(p, ".")
        slash == LastIndex(p, "/")
    IN  IF dot > slash THEN SubSeq(p, dot, Len(p)) ELSE <<>>

\* filepath.Base for a slash-separated path without trailing slash.
Base(p) == SubSeq(p, LastIndex(p, "/") + 1, Len(p))

\* filepath.Join(dir, name) for two clean, non-empty elements.
Join(dir, name) == dir \o <<"/">> \o name

\* "_" followed by n - 1 times "a": a block name of n bytes.
LongBlockName(n) == [i \in 1..n |-> IF i = 1 THEN "_" ELSE "a"]

\* The sequences that enumerate the finite set S without repetition.
Orderings(S) ==
    {q \in [1..Cardinality(S) -> S] : \A i, j \in 1..Cardinality(S) : q[i] = q[j] => i = j}

EmptyMap == <<>>

(***************************************************************************)
(* Package constants and the names used as inputs                          *)
(***************************************************************************)
layoutsPath   == <<"l","a","y","o","u","t","s">>
pagesPath     == <<"p","a","g","e","s">>
blocksPath    == <<"b","l","o","c","k","s">>
fileExtension == <<".","g","o","h","t","m","l">>

\* The entry points every layout and every page agree on.
layoutEntry == <<"l","a","y","o","u","t">>
pageEntry   == <<"p","a","g","e">>

application == <<"a","p","p","l","i","c","a","t","i","o","n">>
special     == <<"s","p","e","c","i","a","l">>
home        == <<"h","o","m","e">>
errorName   == <<"e","r","r","o","r">>
header      == <<"_","h","e","a","d","e","r">>
mismatch    == <<"m","i","s","m","a","t","c","h">>
actual      == <<"_","a","c","t","u","a","l">>
dup         == <<"d","u","p">>
notes       == <<"n","o","t","e","s",".","t","x","t">>
NoName      == <<>>

Colon      == <<":">>
Underscore == <<"_">>

\* len(name) > 255 in RenderBlockAsHTMLString.
MaxBlockNameLen == 255

(***************************************************************************)
(* Errors and values                                                       *)
(***************************************************************************)
Err(kind, detail, key, aux) == [kind |-> kind, detail |-> detail, key |-> key, aux |-> aux]

NoErr == Err("nil", "", NoName, NoName)

ErrTemplateNotFound(key) == Err("ErrTemplateNotFound", "template not found", key, NoName)

ErrInvalidBlockNamePrefix ==
    Err("ErrInvalidBlockName", "blockname needs to start with _", NoName, NoName)

ErrInvalidBlockNameLength ==
    Err("ErrInvalidBlockName", "number of characters in string must not exceed 255", NoName, NoName)

ErrBlockNotFound(key) ==
    Err("ErrBlockNotFound", "not found in templates-map", key, NoName)

ErrNoLayout == Err("BuildError", "you need at least one layout", NoName, NoName)

ErrReadDir(what) == Err("BuildError", what, NoName, NoName)

ErrParse(prefix) == Err("BuildError", "parse", prefix, NoName)

ErrBlockFile(blockFilename, blockName) ==
    Err("BuildError", "block already defined as key or filename doesn't match a definition",
        blockFilename, blockName)

ErrExecution(entry) == Err("ExecutionError", "execute", entry, NoName)

NilData == "nil"
NilValue == [type |-> "nil", s |-> <<>>]

(***************************************************************************)
(* File contents.  A template file either fails to parse (ok = FALSE) or   *)
(* defines the templates named in `defines`; a body may need non-nil data  *)
(* (`needs`), include another template of its unit (`embeds`) and call     *)
(* d_block with a fixed name (`dcall`).                                    *)
(***************************************************************************)
File(ok, defines, needs, embeds, dcall) ==
    [ok |-> ok, defines |-> defines, needs |-> needs, embeds |-> embeds, dcall |-> dcall]

LayoutFile == File(TRUE, {layoutEntry}, FALSE, pageEntry, NoName)
PageFile   == File(TRUE, {pageEntry}, FALSE, NoName, NoName)
PageDBlock(b) == File(TRUE, {pageEntry}, FALSE, NoName, b)
BlockFile(def) == File(TRUE, {def}, FALSE, NoName, NoName)
StrictBlock(def) == File(TRUE, {def}, TRUE, NoName, NoName)
BrokenFile == File(FALSE, {}, FALSE, NoName, NoName)

MissingDir == [missing |-> TRUE, files |-> EmptyMap]
Dir(files) == [missing |-> FALSE, files |-> files]

\* One directory entry: the file name with its extension and the content.
Entry(stem, content) == [name |-> stem \o fileExtension, content |-> content]
Other(name, content) == [name |-> name, content |-> content]

\* A directory from a set of entries with distinct names.
DirOf(entries) ==
    Dir([n \in {e.name : e \in entries} |-> (CHOOSE e \in entries : e.name = n).content])

FS(layouts, pages, blocks) == [layouts |-> layouts, pages |-> pages, blocks |-> blocks]

DirByPath(fs, dirPath) ==
    IF dirPath = layoutsPath THEN fs.layouts
    ELSE IF dirPath = pagesPath THEN fs.pages
    ELSE fs.blocks

(***************************************************************************)
(* Directory listing and compilation                                       *)
(***************************************************************************)
\* getFilePathsInDir on the OS filesystem (prefixTemplatesPath = FALSE): the
\* paths of the entries whose extension is fileExtension.  The order of
\* Readdir(-1) is the directory's, so the caller draws one ordering.
getFilePathsInDir(fs, dirPath) ==
    LET dir == DirByPath(fs, dirPath)
    IN  [err   |-> dir.missing,
         files |-> {Join(dirPath, n) : n \in {m \in DOMAIN dir.files : Ext(m) = fileExtension}}]

\* The content ParseFS reads at `path`, a broken file when there is none.
ReadFile(fs, path) ==
    LET dir == DirByPath(fs, SubSeq(path, 1, LastIndex(path, "/") - 1))
    IN  IF ~dir.missing /\ Base(path) \in DOMAIN dir.files
        THEN dir.files[Base(path)]
        ELSE BrokenFile

\* The definitions of a template set parsed from `files` in order: a later
\* file's definition of a name replaces an earlier one.
ParsedDefs(fs, files) ==
    LET defining(n) == {i \in 1..Len(files) : n \in ReadFile(fs, files[i]).defines}
        last(n)     == CHOOSE i \in defining(n) : \A j \in defining(n) : j <= i
        names       == UNION {ReadFile(fs, files[i]).defines : i \in 1..Len(files)}
    IN  [n \in names |->
            LET c == ReadFile(fs, files[last(n)])
            IN  [src |-> files[last(n)], needs |-> c.needs,
                 embeds |-> c.embeds, dcall |-> c.dcall]]

\* parseNewTemplateWithFuncMap: text/template when DisableSafeHTML is set,
\* safehtml/template otherwise; ParseFS fails on the first unparsable file.
parseNewTemplateWithFuncMap(fs, disableSafeHTML, files) ==
    IF Len(files) = 0 \/ \E i \in 1..Len(files) : ~ReadFile(fs, files[i]).ok
    THEN [ok |-> FALSE, unit |-> [engine |-> "none", defs |-> EmptyMap]]
    ELSE [ok   |-> TRUE,
          unit |-> [engine |-> IF disableSafeHTML THEN "text/template" ELSE "safehtml/template",
                    defs   |-> ParsedDefs(fs, files)]]

definedTemplatesContain(unit, name) == name \in DOMAIN unit.defs

\* strings.TrimSuffix(filename, path.Ext(filename)) of filepath.Base(path).
LogicalName(filePath) == TrimSuffix(Base(filePath), Ext(Base(filePath)))

LayoutPageKey(layoutName, pageName) == layoutName \o Colon \o pageName

\* Mutant of PageKey: the page-only unit is stored under the bare page name.
PageKeyNoColon(pageName) == pageName

PageKey(pageName) == Colon \o pageName

PrefixedBlockName(blockName) ==
    IF ~HasPrefix(blockName, Underscore) THEN Underscore \o blockName ELSE blockName

\* t.templates[key] = unit
Store(map, key, unit) ==
    [k \in DOMAIN map \cup {key} |-> IF k = key THEN unit ELSE map[k]]

\* The bodies of the three loops of parseTemplates, in execution order.
WorkItems(layouts, pages, blocks) ==
    LET nl == Len(layouts)
        np == Len(pages)
    IN  [k \in 1..(nl * np) |->
            [kind |-> "layout:page",
             layout |-> layouts[((k - 1) \div np) + 1],
             file |-> pages[((k - 1) % np) + 1]]]
        \o [k \in 1..np |-> [kind |-> ":page", layout |-> NoName, file |-> pages[k]]]
        \o [k \in 1..Len(blocks) |-> [kind |-> "_block", layout |-> NoName, file |-> blocks[k]]]

\* Mutant of ParseItem: a block is stored without testing whether its key
\* is already in the map.
ParseItemNoExistsCheck(item, map, fs, disableSafeHTML, blocks) ==
    IF item.kind = "layout:page" THEN
        LET p == parseNewTemplateWithFuncMap(fs, disableSafeHTML, blocks \o <<item.file, item.layout>>)
        IN  IF ~p.ok
            THEN [map |-> map, err |-> ErrParse(LogicalName(item.file))]
            ELSE [map |-> Store(map, LayoutPageKey(LogicalName(item.layout), LogicalName(item.file)), p.unit),
                  err |-> NoErr]
    ELSE IF item.kind = ":page" THEN
        LET p == parseNewTemplateWithFuncMap(fs, disableSafeHTML, blocks \o <<item.file>>)
        IN  IF ~p.ok
            THEN [map |-> map, err |-> ErrParse(LogicalName(item.file))]
            ELSE [map |-> Store(map, PageKey(LogicalName(item.file)), p.unit), err |-> NoErr]
    ELSE
        LET p == parseNewTemplateWithFuncMap(fs, disableSafeHTML, <<item.file>>)
            blockName == LogicalName(item.file)
            prefixedBlockName == PrefixedBlockName(blockName)
        IN  IF ~p.ok
            THEN [map |-> map, err |-> ErrParse(item.file)]
            ELSE IF ~definedTemplatesContain(p.unit, prefixedBlockName)
            THEN [map |-> map, err |-> ErrBlockFile(Base(item.file), blockName)]
            ELSE [map |-> Store(map, prefixedBlockName, p.unit), err |-> NoErr]

\* One loop iteration on the map under construction: the map after it and
\* the error that ends parseTemplates, if any.
ParseItem(item, map, fs, disableSafeHTML, blocks) ==
    IF item.kind = "layout:page" THEN
        LET p == parseNewTemplateWithFuncMap(fs, disableSafeHTML, blocks \o <<item.file, item.layout>>)
        IN  IF ~p.ok
            THEN [map |-> map, err |-> ErrParse(LogicalName(item.file))]
            ELSE [map |-> Store(map, LayoutPageKey(LogicalName(item.layout), LogicalName(item.file)), p.unit),
                  err |-> NoErr]
    ELSE IF item.kind = ":page" THEN
        LET p == parseNewTemplateWithFuncMap(fs, disableSafeHTML, blocks \o <<item.file>>)
        IN  IF ~p.ok
            THEN [map |-> map, err |-> ErrParse(LogicalName(item.file))]
            ELSE [map |-> Store(map, PageKey(LogicalName(item.file)), p.unit), err |-> NoErr]
    ELSE
        LET p == parseNewTemplateWithFuncMap(fs, disableSafeHTML, <<item.file>>)
            blockName == LogicalName(item.file)
            prefixedBlockName == PrefixedBlockName(blockName)
        IN  IF ~p.ok
            THEN [map |-> map, err |-> ErrParse(item.file)]
            ELSE IF prefixedBlockName \in DOMAIN map
                    \/ ~definedTemplatesContain(p.unit, prefixedBlockName)
            THEN [map |-> map, err |-> ErrBlockFile(Base(item.file), blockName)]
            ELSE [map |-> Store(map, prefixedBlockName, p.unit), err |-> NoErr]

\* The loops of parseTemplates from item i on: they return at the first error
\* and leave in t.templates whatever was stored before it.
RECURSIVE ParseLoop(_, _, _, _, _, _)
ParseLoop(items, i, map, fs, disableSafeHTML, blocks) ==
    IF i > Len(items)
    THEN [map |-> map, err |-> NoErr]
    ELSE LET r == ParseItem(items[i], map, fs, disableSafeHTML, blocks)
         IN  IF r.err # NoErr
             THEN r
             ELSE ParseLoop(items, i + 1, r.map, fs, disableSafeHTML, blocks)

(***************************************************************************)
(* Execution of a compiled unit and the dynamic block dispatcher           *)
(***************************************************************************)
\* Bound on the nesting of template calls (text/template's maxExecDepth).
MaxExecDepth == 4

HTMLValue(disableSafeHTML, s) ==
    [type |-> IF disableSafeHTML THEN "string" ELSE "safehtml.HTML", s |-> s]

\* Mutant of ValidateBlockName: the length check is off by one (>= for >).
ValidateBlockNameOffByOne(name) ==
    IF ~HasPrefix(name, Underscore) THEN ErrInvalidBlockNamePrefix
    ELSE IF Len(name) >= MaxBlockNameLen THEN ErrInvalidBlockNameLength
    ELSE NoErr

\* Mutant of ValidateBlockName: the length check wraps the wrong sentinel.
ValidateBlockNameWrongSentinel(name) ==
    IF ~HasPrefix(name, Underscore) THEN ErrInvalidBlockNamePrefix
    ELSE IF Len(name) > MaxBlockNameLen
    THEN Err("ErrBlockNotFound", "number of characters in string must not exceed 255",
             NoName, NoName)
    ELSE NoErr

\* The two checks RenderBlockAsHTMLString makes on the name before it reads
\* the registry, lines 466-471.
ValidateBlockName(name) ==
    IF ~HasPrefix(name, Underscore) THEN ErrInvalidBlockNamePrefix
    ELSE IF Len(name) > MaxBlockNameLen THEN ErrInvalidBlockNameLength
    ELSE NoErr

RECURSIVE ExecuteUnit(_, _, _, _, _, _)
RECURSIVE RenderBlock(_, _, _, _, _)

\* tt.ExecuteTemplate(w, entry, data): the bytes written to w, as the list of
\* bodies that produced them, and the error.  Output written before an error
\* stays written.
ExecuteUnit(unit, entry, data, reg, disableSafeHTML, depth) ==
    IF depth = 0 \/ entry \notin DOMAIN unit.defs
    THEN [out |-> <<>>, err |-> ErrExecution(entry)]
    ELSE
        LET b   == unit.defs[entry]
            own == <<[src |-> b.src, entry |-> entry, data |-> data]>>
            emb == IF b.embeds # NoName /\ b.embeds \in DOMAIN unit.defs
                   THEN ExecuteUnit(unit, b.embeds, data, reg, disableSafeHTML, depth - 1)
                   ELSE [out |-> <<>>, err |-> NoErr]
            dyn == IF b.dcall # NoName
                   THEN RenderBlock(b.dcall, data, reg, disableSafeHTML, depth - 1)
                   ELSE [val |-> HTMLValue(disableSafeHTML, <<>>), err |-> NoErr]
        IN  IF b.needs /\ data = NilData
            THEN [out |-> <<>>, err |-> ErrExecution(entry)]
            ELSE IF emb.err # NoErr
            THEN [out |-> own \o emb.out, err |-> emb.err]
            ELSE IF dyn.err # NoErr
            THEN [out |-> own \o emb.out, err |-> dyn.err]
            ELSE [out |-> own \o emb.out \o dyn.val.s, err |-> NoErr]

\* The body of RenderBlockAsHTMLString against the registry reg.
RenderBlock(name, data, reg, disableSafeHTML, depth) ==
    IF ValidateBlockName(name) # NoErr
    THEN [val |-> NilValue, err |-> ValidateBlockName(name), executed |-> FALSE]
    ELSE IF name \notin DOMAIN reg
    THEN [val |-> NilValue, err |-> ErrBlockNotFound(name), executed |-> FALSE]
    ELSE LET e == ExecuteUnit(reg[name], name, data, reg, disableSafeHTML, depth)
         IN  [val |-> HTMLValue(disableSafeHTML, e.out), err |-> e.err, executed |-> TRUE]

\* Mutant of RenderBlockAsHTMLString: the execution error is dropped.
RenderBlockSwallowError(name, data, reg, disableSafeHTML) ==
    [RenderBlock(name, data, reg, disableSafeHTML, MaxExecDepth) EXCEPT
        !.err = IF @.kind = "ExecutionError" THEN NoErr ELSE @]

RenderBlockAsHTMLString(name, data, reg, disableSafeHTML) ==
    RenderBlock(name, data, reg, disableSafeHTML, MaxExecDepth)

\* The entry t.Logger.ErrorContext(ctx, "d_block_ctx failed", "block",
\* blockname, "error", err) writes.
LogEntry(level, msg, block, err) == [level |-> level, msg |-> msg, block |-> block, error |-> err]

\* Mutant of RenderBlockAsHTMLStringWithContext: the error is logged and
\* not returned.
RenderBlockWithContextSwallow(blockname, payload, reg, disableSafeHTML) ==
    LET r == RenderBlockAsHTMLString(blockname, payload, reg, disableSafeHTML)
    IN  [val |-> r.val, err |-> NoErr, executed |-> r.executed,
         log |-> IF r.err # NoErr
                 THEN <<LogEntry("ERROR", "d_block_ctx failed", blockname, r.err)>>
                 ELSE <<>>]

RenderBlockAsHTMLStringWithContext(blockname, payload, reg, disableSafeHTML) ==
    LET r == RenderBlockAsHTMLString(blockname, payload, reg, disableSafeHTML)
    IN  [val |-> r.val, err |-> r.err, executed |-> r.executed,
         log |-> IF r.err # NoErr
                 THEN <<LogEntry("ERROR", "d_block_ctx failed", blockname, r.err)>>
                 ELSE <<>>]

(***************************************************************************)
(* Name resolution of ExecuteTemplate                                      *)
(***************************************************************************)
\* r.Context().Value(LayoutContextKey{}).(string): absent when r is nil or the
\* context holds no string under the key.
NoOverride == [set |-> FALSE, layout |-> NoName]
Override(layout) == [set |-> TRUE, layout |-> layout]

\* Mutant of ResolveName: the test for a colon anywhere comes before the
\* test for a leading colon.
ResolveNameContainsFirst(templateName, override, defaultLayout) ==
    IF HasPrefix(templateName, Underscore)
    THEN [lookupName |-> templateName, execName |-> templateName]
    ELSE IF Contains(templateName, Colon)
    THEN [lookupName |-> templateName, execName |-> layoutEntry]
    ELSE IF HasPrefix(templateName, Colon)
    THEN [lookupName |-> templateName, execName |-> pageEntry]
    ELSE [lookupName |-> IF override.set
                         THEN override.layout \o Colon \o templateName
                         ELSE defaultLayout \o Colon \o templateName,
          execName   |-> layoutEntry]

\* Mutant of ResolveName: the layout of the request context is ignored.
ResolveNameIgnoreOverride(templateName, override, defaultLayout) ==
    IF HasPrefix(templateName, Underscore)
    THEN [lookupName |-> templateName, execName |-> templateName]
    ELSE IF HasPrefix(templateName, Colon)
    THEN [lookupName |-> templateName, execName |-> pageEntry]
    ELSE IF Contains(templateName, Colon)
    THEN [lookupName |-> templateName, execName |-> layoutEntry]
    ELSE [lookupName |-> defaultLayout \o Colon \o templateName,
          execName   |-> layoutEntry]

\* Mutant of ResolveName: an empty name is replaced by "error" first, as the
\* earlier version of ExecuteTemplate did (lines 1164-1166).
ResolveNameErrorFallback(templateName, override, defaultLayout) ==
    LET name == IF templateName = NoName THEN errorName ELSE templateName
    IN  IF HasPrefix(name, Underscore)
        THEN [lookupName |-> name, execName |-> name]
        ELSE IF HasPrefix(name, Colon)
        THEN [lookupName |-> name, execName |-> pageEntry]
        ELSE IF Contains(name, Colon)
        THEN [lookupName |-> name, execName |-> layoutEntry]
        ELSE [lookupName |-> IF override.set
                             THEN override.layout \o Colon \o name
                             ELSE defaultLayout \o Colon \o name,
              execName   |-> layoutEntry]

\* lookupName and execName as the if/else chain of ExecuteTemplate sets them.
\* Mutant of ResolveName: the entry point is chosen by the shape of the key
\* that was composed, not by the shape of the name.
ResolveNameEntryFromKey(templateName, override, defaultLayout) ==
    LET key == IF HasPrefix(templateName, Underscore) \/ Contains(templateName, Colon)
               THEN templateName
               ELSE IF override.set
               THEN override.layout \o Colon \o templateName
               ELSE defaultLayout \o Colon \o templateName
    IN  [lookupName |-> key,
         execName   |-> IF HasPrefix(key, Underscore) THEN key
                        ELSE IF HasPrefix(key, Colon) THEN pageEntry
                        ELSE layoutEntry]

ResolveName(templateName, override, defaultLayout) ==
    IF HasPrefix(templateName, Underscore)
    THEN [lookupName |-> templateName, execName |-> templateName]
    ELSE IF HasPrefix(templateName, Colon)
    THEN [lookupName |-> templateName, execName |-> pageEntry]
    ELSE IF Contains(templateName, Colon)
    THEN [lookupName |-> templateName, execName |-> layoutEntry]
    ELSE [lookupName |-> IF override.set
                         THEN override.layout \o Colon \o templateName
                         ELSE defaultLayout \o Colon \o templateName,
          execName   |-> layoutEntry]

\* Mutant of LookupAndExecute: a miss reports the name as it was requested,
\* not the key that was looked up.
LookupAndExecuteBareName(templateName, override, data, reg, c) ==
    LET n == ResolveName(templateName, override, c.DefaultLayout)
    IN  IF n.lookupName \notin DOMAIN reg
        THEN [lookupName |-> n.lookupName, execName |-> n.execName, executed |-> FALSE,
              out |-> <<>>, err |-> ErrTemplateNotFound(templateName)]
        ELSE LET e == ExecuteUnit(reg[n.lookupName], n.execName, data, reg,
                                  c.DisableSafeHTML, MaxExecDepth)
             IN  [lookupName |-> n.lookupName, execName |-> n.execName, executed |-> TRUE,
                  out |-> e.out, err |-> e.err]

\* The part of ExecuteTemplate that runs under the read lock: resolution,
\* lookup and execution.
LookupAndExecute(templateName, override, data, reg, c) ==
    LET n == ResolveName(templateName, override, c.DefaultLayout)
    IN  IF n.lookupName \notin DOMAIN reg
        THEN [lookupName |-> n.lookupName, execName |-> n.execName, executed |-> FALSE,
              out |-> <<>>, err |-> ErrTemplateNotFound(n.lookupName)]
        ELSE LET e == ExecuteUnit(reg[n.lookupName], n.execName, data, reg,
                                  c.DisableSafeHTML, MaxExecDepth)
             IN  [lookupName |-> n.lookupName, execName |-> n.execName, executed |-> TRUE,
                  out |-> e.out, err |-> e.err]

(***************************************************************************)
(* Construction: the function table                                        *)
(***************************************************************************)
\* The names the engine adds, in the order AddFuncMapHelpers adds them.
TrustedNames ==
    <<"trusted_html", "trusted_script", "trusted_style", "trusted_stylesheet",
      "trusted_url", "trusted_resource_url", "trusted_identifier">>

TrustedCtxNames ==
    <<"trusted_html_ctx", "trusted_script_ctx", "trusted_style_ctx", "trusted_stylesheet_ctx",
      "trusted_url_ctx", "trusted_resource_url_ctx", "trusted_identifier_ctx">>

HelperNames ==
    <<"d_block", "d_block_ctx">> \o TrustedNames \o TrustedCtxNames \o <<"locals", "references">>

\* A function of the table: who put it there and what it is.
Func(owner, impl) == [owner |-> owner, impl |-> impl]

\* The function the engine registers under a helper name.
HelperFunc(name, disableSafeHTML) ==
    IF name = "d_block" THEN Func("engine", "RenderBlockAsHTMLString")
    ELSE IF name = "d_block_ctx" THEN Func("engine", "RenderBlockAsHTMLStringWithContext")
    ELSE IF name = "locals" THEN Func("engine", "Locals")
    ELSE IF name = "references" THEN Func("engine", "References")
    ELSE IF \E i \in 1..Len(TrustedNames) : TrustedNames[i] = name
    THEN Func("engine", IF disableSafeHTML THEN "passthrough" ELSE "trusted")
    ELSE Func("engine", IF disableSafeHTML THEN "passthroughCtx" ELSE "trustedCtx")

NoPanic == ""

\* Mutant of AddHelper: a name already in use is overwritten.
AddHelperOverride(fm, name, f) == [funcMap |-> Store(fm, name, f), panic |-> NoPanic]

\* One registration: panic when the name is in use, t.funcMap[name] = f
\* otherwise.
AddHelper(fm, name, f) ==
    IF name \in DOMAIN fm
    THEN [funcMap |-> fm, panic |-> name]
    ELSE [funcMap |-> Store(fm, name, f), panic |-> NoPanic]

\* The registrations of AddFuncMapHelpers from the i-th name on; the first
\* panic ends them and leaves in the table what was added before it.
RECURSIVE AddHelpers(_, _, _)
AddHelpers(fm, i, disableSafeHTML) ==
    IF i > Len(HelperNames)
    THEN [funcMap |-> fm, panic |-> NoPanic]
    ELSE LET r == AddHelper(fm, HelperNames[i], HelperFunc(HelperNames[i], disableSafeHTML))
         IN  IF r.panic # NoPanic
             THEN r
             ELSE AddHelpers(r.funcMap, i + 1, disableSafeHTML)

AddFuncMapHelpers(fm, addHelpers, disableSafeHTML) ==
    IF addHelpers
    THEN AddHelpers(fm, 1, disableSafeHTML)
    ELSE [funcMap |-> fm, panic |-> NoPanic]

\* The engine before New has run AddFuncMapHelpers: the options have set
\* the function table and the flag.
Unconstructed(fm, addHelpers) ==
    [pc |-> "new", funcMap |-> fm, given |-> fm, caller |-> fm,
     AddHeadlessCMSFuncMapHelpers |-> addHelpers, panic |-> NoPanic]

\* The engine after AddFuncMapHelpers has run on the table of s.
AfterHelpers(s, disableSafeHTML) ==
    LET r == AddFuncMapHelpers(s.funcMap, s.AddHeadlessCMSFuncMapHelpers, disableSafeHTML)
    IN  [s EXCEPT !.pc = IF r.panic # NoPanic THEN "panicked" ELSE "ready",
                  !.given = s.funcMap,
                  !.funcMap = r.funcMap,
                  !.panic = r.panic]

Constructed(fm, addHelpers, disableSafeHTML) ==
    AfterHelpers(Unconstructed(fm, addHelpers), disableSafeHTML)

\* New(opts...): the options have been applied; AddFuncMapHelpers runs.
New ==
    /\ setup.pc = "new"
    /\ setup' = AfterHelpers(setup, cfg.DisableSafeHTML)
    /\ UNCHANGED <<heap, fsys, cfg, templates, lock, pc, call, bld, ret, sink, installed>>

\* AddFuncMapHelpers called by the application on the constructed engine.
CallAddFuncMapHelpers ==
    /\ setup.pc = "ready"
    /\ setup' = AfterHelpers(setup, cfg.DisableSafeHTML)
    /\ UNCHANGED <<heap, fsys, cfg, templates, lock, pc, call, bld, ret, sink, installed>>

(***************************************************************************)
(* Template helper functions: values, trusted converters, Locals and       *)
(* References                                                              *)
(***************************************************************************)
\* A Go value passed to a helper as `any`: the nil interface, a string (its
\* bytes), an int, or a pointer (the address of a heap cell, 0 for a nil
\* pointer of some type).
Value(kind, s, n) == [kind |-> kind, s |-> s, n |-> n]

GoNil == Value("nil", <<>>, 0)
Str(s) == Value("string", s, 0)
IntV(n) == Value("int", <<>>, n)
Ptr(addr) == Value("ptr", <<>>, addr)

Digit(d) == <<"0","1","2","3","4","5","6","7","8","9">>[d + 1]

RECURSIVE Decimal(_)
Decimal(n) == IF n < 10 THEN <<Digit(n)>> ELSE Decimal(n \div 10) \o <<Digit(n % 10)>>

\* fmt.Sprint of one value.
Sprint(v) ==
    IF v.kind = "nil" THEN <<"<","n","i","l",">">>
    ELSE IF v.kind = "string" THEN v.s
    ELSE IF v.kind = "int" THEN Decimal(v.n)
    ELSE IF v.n = 0 THEN <<"<","n","i","l",">">>
    ELSE <<"0","x","c","0","0","0">> \o Decimal(v.n)

\* Length of the content preview of the usage log.
PreviewLen == 50

\* Mutant of firstN: the string is not cut.
firstNUncut(s, n) == s

firstN(s, n) == IF Len(s) > n THEN SubSeq(s, 1, n) \o <<".",".",".">> ELSE s

\* The safehtml type a converter wraps into, by the index of its name.
TrustedTypes ==
    <<"safehtml.HTML", "safehtml.Script", "safehtml.Style", "safehtml.StyleSheet",
      "safehtml.URL", "safehtml.TrustedResourceURL", "safehtml.Identifier">>

\* uncheckedconversions.XFromStringKnownToSatisfyTypeContract(s)
Trusted(type, s) == [type |-> type, s |-> s]

\* Mutant of TrustedConverter: nil is formatted like any other value.
TrustedConverterNoNilCheck(i, v) == Trusted(TrustedTypes[i], Sprint(v))

\* trustedHTML .. trustedIdentifier, the i-th of them.
TrustedConverter(i, v) ==
    IF v = GoNil
    THEN Trusted(TrustedTypes[i], <<>>)
    ELSE Trusted(TrustedTypes[i], Sprint(v))

\* The function registered under TrustedNames[i]: the converter, or the
\* identity when DisableSafeHTML is set.
TrustedHelper(i, v, c) ==
    IF c.DisableSafeHTML THEN v ELSE TrustedConverter(i, v)

\* An entry of t.Logger.InfoContext(ctx, "<helper> called", key, value).
UsageEntry(helper, key, value) ==
    [level |-> "INFO", helper |-> helper, key |-> key, value |-> value]

\* The function registered under TrustedCtxNames[i], lines 567-633: value
\* returned and entries logged.
TrustedCtxHelper(i, v, c) ==
    IF c.DisableSafeHTML
    THEN [val |-> v,
          log |-> IF ~c.DisableTrustedLog
                  THEN <<UsageEntry("trusted_helper_ctx", "content_preview",
                                    firstN(Sprint(v), PreviewLen))>>
                  ELSE <<>>]
    ELSE [val |-> TrustedConverter(i, v),
          log |-> IF c.DisableTrustedLog THEN <<>>
                  ELSE IF i <= 4
                  THEN <<UsageEntry(TrustedCtxNames[i], "content_preview", firstN(v.s, PreviewLen))>>
                  ELSE IF i <= 6
                  THEN <<UsageEntry(TrustedCtxNames[i], "url", v.s)>>
                  ELSE <<UsageEntry(TrustedCtxNames[i], "identifier", v.s)>>]

\* m[k] = v on a map[string]any.
MapSetKeepFirst(m, k, v) ==
    IF k \in DOMAIN m THEN m
    ELSE [x \in DOMAIN m \cup {k} |-> IF x = k THEN v ELSE m[x]]

MapSet(m, k, v) == [x \in DOMAIN m \cup {k} |-> IF x = k THEN v ELSE m[x]]

\* The loop of Locals from the i-th argument on (Go index i - 1): key is the
\* last argument seen at an even Go index.
RECURSIVE LocalsFrom(_, _, _, _)
LocalsFrom(args, i, key, m) ==
    IF i > Len(args) THEN m
    ELSE IF (i - 1) % 2 = 0
    THEN LocalsFrom(args, i + 1, args[i], m)
    ELSE LocalsFrom(args, i + 1, key, MapSet(m, Sprint(key), args[i]))

Locals(args) == LocalsFrom(args, 1, GoNil, EmptyMap)

\* Mutant of Reference: a pointer is boxed like any other value.
ReferenceBoxesPointers(h, arg) ==
    IF arg.kind = "nil"
    THEN [ptr |-> GoNil, heap |-> h]
    ELSE [ptr |-> Ptr(Len(h) + 1), heap |-> Append(h, arg)]

\* Lines 791-803: the value stored for one argument, and the heap after it.
\* reflect.New allocates a cell no other pointer points to.
Reference(h, arg) ==
    IF arg.kind = "nil"
    THEN [ptr |-> GoNil, heap |-> h]
    ELSE IF arg.kind = "ptr"
    THEN [ptr |-> arg, heap |-> h]
    ELSE [ptr |-> Ptr(Len(h) + 1), heap |-> Append(h, arg)]

RECURSIVE ReferencesFrom(_, _, _, _, _)
ReferencesFrom(args, i, key, m, h) ==
    IF i > Len(args) THEN [m |-> m, heap |-> h]
    ELSE IF (i - 1) % 2 = 0
    THEN ReferencesFrom(args, i + 1, args[i], m, h)
    ELSE LET r == Reference(h, args[i])
         IN  ReferencesFrom(args, i + 1, key, MapSet(m, Sprint(key), r.ptr), r.heap)

References(args, h) == ReferencesFrom(args, 1, GoNil, EmptyMap, h)

(***************************************************************************)
(* Goroutines and the reader/writer lock                                   *)
(***************************************************************************)
\* Number of goroutines calling into one Templates value.
NumProcs == 2

Procs == 1..NumProcs
NoProc == 0

\* sync.RWMutex: w is the goroutine inside Lock()..Unlock() (it owns the inner
\* writer mutex and has announced itself, so RLock blocks), readers the
\* goroutines between RLock and RUnlock.  The writer runs once readers = {}.
FreeLock == [w |-> NoProc, readers |-> {}]

\* attempt and before are history: what the TryLock of an always-reload
\* render found ("rebuild" when it got the lock, "skipped_writer" when a
\* goroutine was inside Lock()..Unlock(), "skipped_readers" when only readers
\* held the lock) and the registry at that moment when it was skipped.
NoCall == [op |-> "none", name |-> NoName, override |-> NoOverride, data |-> NilData,
           attempt |-> "none", before |-> EmptyMap]

NoBuild == [layouts |-> <<>>, pages |-> <<>>, blocks |-> <<>>, err |-> NoErr, pre |-> EmptyMap]

\* log holds the entries the call has sent to t.Logger.
NoRet == [done |-> FALSE, err |-> NoErr, val |-> NilValue,
          lookupName |-> NoName, execName |-> NoName, executed |-> FALSE, log |-> <<>>]

\* The fields of a Templates value before any ParseTemplates.
InitFields(fileSystems, configs) ==
    /\ fsys \in fileSystems
    /\ cfg \in configs
    /\ templates = EmptyMap
    /\ lock = FreeLock
    /\ pc = [p \in Procs |-> "idle"]
    /\ call = [p \in Procs |-> NoCall]
    /\ bld = [p \in Procs |-> NoBuild]
    /\ ret = [p \in Procs |-> NoRet]
    /\ sink = [p \in Procs |-> <<>>]
    /\ installed = {EmptyMap}

\* New() without a function table of the caller: the state after
\* construction, before any ParseTemplates.
InitWith(fileSystems, configs) ==
    /\ InitFields(fileSystems, configs)
    /\ setup = Constructed(EmptyMap, TRUE, cfg.DisableSafeHTML)
    /\ heap = EmptyMap

\* ParseTemplates is entered: the goroutine is about to call Lock().
CallParseTemplates(p) ==
    /\ pc[p] = "idle"
    /\ pc' = [pc EXCEPT ![p] = "lock"]
    /\ call' = [call EXCEPT ![p] = [NoCall EXCEPT !.op = "ParseTemplates"]]
    /\ UNCHANGED <<heap, setup, fsys, cfg, templates, lock, bld, ret, sink, installed>>

\* MustParseTemplates is entered: it calls ParseTemplates.
CallMustParseTemplates(p) ==
    /\ pc[p] = "idle"
    /\ pc' = [pc EXCEPT ![p] = "lock"]
    /\ call' = [call EXCEPT ![p] = [NoCall EXCEPT !.op = "MustParseTemplates"]]
    /\ UNCHANGED <<heap, setup, fsys, cfg, templates, lock, bld, ret, sink, installed>>

\* Where a call is after parseTemplates and the deferred Unlock: fatalOnErr
\* panics when MustParseTemplates got an error, every other call returns.
AfterBuild(op, err) ==
    IF op = "MustParseTemplates" /\ err # NoErr THEN "panicked" ELSE "done"

\* templatesLock.Lock(), first half: take the writer mutex and announce the
\* writer; new readers block from here on.
LockAnnounce(p) ==
    /\ pc[p] = "lock"
    /\ lock.w = NoProc
    /\ lock' = [lock EXCEPT !.w = p]
    /\ pc' = [pc EXCEPT ![p] = "lock_wait"]
    /\ UNCHANGED <<heap, setup, fsys, cfg, templates, call, bld, ret, sink, installed>>

\* templatesLock.Lock(), second half: the readers have drained.
LockAcquire(p) ==
    /\ pc[p] = "lock_wait"
    /\ lock.w = p
    /\ lock.readers = {}
    /\ pc' = [pc EXCEPT ![p] = "reset"]
    /\ UNCHANGED <<heap, setup, fsys, cfg, templates, lock, call, bld, ret, sink, installed>>

\* Mutant of ParseReset: the check for zero layouts is missing.
ParseResetNoLayoutCheck(p) ==
    /\ pc[p] = "reset"
    /\ templates' = EmptyMap
    /\ LET l == getFilePathsInDir(fsys, layoutsPath)
           g == getFilePathsInDir(fsys, pagesPath)
           b == getFilePathsInDir(fsys, blocksPath)
           fail(e) == /\ bld' = [bld EXCEPT ![p] = [NoBuild EXCEPT !.err = e, !.pre = templates]]
                      /\ pc' = [pc EXCEPT ![p] = "unlock"]
       IN  IF l.err THEN fail(ErrReadDir("reading layout files"))
           ELSE IF g.err THEN fail(ErrReadDir("reading pages"))
           ELSE IF b.err THEN fail(ErrReadDir("reading shared blocks"))
           ELSE \E lo \in Orderings(l.files), po \in Orderings(g.files), bo \in Orderings(b.files) :
                    /\ bld' = [bld EXCEPT ![p] = [layouts |-> lo, pages |-> po, blocks |-> bo,
                                                  err |-> NoErr, pre |-> templates]]
                    /\ pc' = [pc EXCEPT ![p] = "fill"]
    /\ UNCHANGED <<heap, setup, fsys, cfg, lock, call, ret, sink, installed>>

\* parseTemplates, lines 291-308: the map is replaced by an empty one, the
\* three directories are listed, and zero layouts is an error.
ParseReset(p) ==
    /\ pc[p] = "reset"
    /\ templates' = EmptyMap
    /\ LET l == getFilePathsInDir(fsys, layoutsPath)
           g == getFilePathsInDir(fsys, pagesPath)
           b == getFilePathsInDir(fsys, blocksPath)
           fail(e) == /\ bld' = [bld EXCEPT ![p] = [NoBuild EXCEPT !.err = e, !.pre = templates]]
                      /\ pc' = [pc EXCEPT ![p] = "unlock"]
       IN  IF l.err THEN fail(ErrReadDir("reading layout files"))
           ELSE IF g.err THEN fail(ErrReadDir("reading pages"))
           ELSE IF b.err THEN fail(ErrReadDir("reading shared blocks"))
           ELSE IF Cardinality(l.files) = 0 THEN fail(ErrNoLayout)
           ELSE \E lo \in Orderings(l.files), po \in Orderings(g.files), bo \in Orderings(b.files) :
                    /\ bld' = [bld EXCEPT ![p] = [layouts |-> lo, pages |-> po, blocks |-> bo,
                                                  err |-> NoErr, pre |-> templates]]
                    /\ pc' = [pc EXCEPT ![p] = "fill"]
    /\ UNCHANGED <<heap, setup, fsys, cfg, lock, call, ret, sink, installed>>

\* parseTemplates, lines 310-354: the three loops, storing into t.templates
\* as they go and returning at the first error.
ParseFill(p) ==
    /\ pc[p] = "fill"
    /\ LET r == ParseLoop(WorkItems(bld[p].layouts, bld[p].pages, bld[p].blocks), 1,
                          templates, fsys, cfg.DisableSafeHTML, bld[p].blocks)
       IN  /\ templates' = r.map
           /\ bld' = [bld EXCEPT ![p].err = r.err]
           /\ installed' = IF r.err = NoErr THEN installed \cup {r.map} ELSE installed
    /\ pc' = [pc EXCEPT ![p] = "unlock"]
    /\ UNCHANGED <<heap, setup, fsys, cfg, lock, call, ret, sink>>

\* Mutant of Unlock: ExecuteTemplate goes on to render after a failed
\* rebuild.
UnlockSwallowError(p) ==
    /\ pc[p] = "unlock"
    /\ lock' = [lock EXCEPT !.w = NoProc]
    /\ IF call[p].op \in {"ParseTemplates", "MustParseTemplates"}
       THEN /\ ret' = [ret EXCEPT ![p] = [NoRet EXCEPT !.done = TRUE, !.err = bld[p].err]]
            /\ pc' = [pc EXCEPT ![p] = AfterBuild(call[p].op, bld[p].err)]
       ELSE /\ ret' = ret
            /\ pc' = [pc EXCEPT ![p] = "rlock"]
    /\ bld' = [bld EXCEPT ![p] = NoBuild]
    /\ UNCHANGED <<heap, setup, fsys, cfg, templates, call, sink, installed>>

\* Mutant of Unlock: the lock is not released when parseTemplates failed, as
\* without the defer.
UnlockOnSuccessOnly(p) ==
    /\ pc[p] = "unlock"
    /\ lock' = IF bld[p].err # NoErr THEN lock ELSE [lock EXCEPT !.w = NoProc]
    /\ IF call[p].op \in {"ParseTemplates", "MustParseTemplates"} \/ bld[p].err # NoErr
       THEN /\ ret' = [ret EXCEPT ![p] = [NoRet EXCEPT !.done = TRUE, !.err = bld[p].err]]
            /\ pc' = [pc EXCEPT ![p] = AfterBuild(call[p].op, bld[p].err)]
       ELSE /\ ret' = ret
            /\ pc' = [pc EXCEPT ![p] = "rlock"]
    /\ bld' = [bld EXCEPT ![p] = NoBuild]
    /\ UNCHANGED <<heap, setup, fsys, cfg, templates, call, sink, installed>>

\* templatesLock.Unlock() after parseTemplates.  ParseTemplates returns the
\* error and MustParseTemplates panics with it (fatalOnErr); ExecuteTemplate
\* returns it when it is not nil and goes on to RLock otherwise.
Unlock(p) ==
    /\ pc[p] = "unlock"
    /\ lock' = [lock EXCEPT !.w = NoProc]
    /\ IF call[p].op \in {"ParseTemplates", "MustParseTemplates"} \/ bld[p].err # NoErr
       THEN /\ ret' = [ret EXCEPT ![p] = [NoRet EXCEPT !.done = TRUE, !.err = bld[p].err]]
            /\ pc' = [pc EXCEPT ![p] = AfterBuild(call[p].op, bld[p].err)]
       ELSE /\ ret' = ret
            /\ pc' = [pc EXCEPT ![p] = "rlock"]
    /\ bld' = [bld EXCEPT ![p] = NoBuild]
    /\ UNCHANGED <<heap, setup, fsys, cfg, templates, call, sink, installed>>

\* Mutant of TryLockOutcome: the lock is taken although a writer holds it.
TryLockOutcomeBlindToWriter(c, l) ==
    IF ~c.AlwaysReloadAndParseTemplates THEN "none"
    ELSE IF l.w = NoProc /\ l.readers # {} THEN "skipped_readers"
    ELSE "rebuild"

\* Mutant of TryLockOutcome: the rebuild is attempted in static mode too.
TryLockOutcomeIgnoreMode(c, l) ==
    IF l.w # NoProc THEN "skipped_writer"
    ELSE IF l.readers # {} THEN "skipped_readers"
    ELSE "rebuild"

\* What the first lines of ExecuteTemplate do about a rebuild, lines 399-400:
\* nothing in static mode; in always-reload mode TryLock succeeds only when
\* no goroutine holds or awaits the write lock and no reader holds the lock.
TryLockOutcome(c, l) ==
    IF ~c.AlwaysReloadAndParseTemplates THEN "none"
    ELSE IF l.w # NoProc THEN "skipped_writer"
    ELSE IF l.readers # {} THEN "skipped_readers"
    ELSE "rebuild"

\* ExecuteTemplate is entered, lines 397-407: in always-reload mode TryLock()
\* either takes the free lock, and parseTemplates runs, or fails at once.
CallExecuteTemplate(p, names, overrides, datas) ==
    /\ pc[p] = "idle"
    /\ \E n \in names, o \in overrides, d \in datas :
        call' = [call EXCEPT ![p] = [op |-> "ExecuteTemplate", name |-> n,
                                     override |-> o, data |-> d,
                                     attempt |-> TryLockOutcome(cfg, lock),
                                     before |-> IF TryLockOutcome(cfg, lock)
                                                      \in {"skipped_writer", "skipped_readers"}
                                                THEN templates ELSE EmptyMap]]
    /\ IF TryLockOutcome(cfg, lock) = "rebuild"
       THEN /\ lock' = [lock EXCEPT !.w = p]
            /\ pc' = [pc EXCEPT ![p] = "reset"]
       ELSE /\ lock' = lock
            /\ pc' = [pc EXCEPT ![p] = "rlock"]
    /\ UNCHANGED <<heap, setup, fsys, cfg, templates, bld, ret, sink, installed>>

\* Mutant of RLock: a reader enters although a writer holds the lock.
RLockIgnoreWriter(p) ==
    /\ pc[p] = "rlock"
    /\ lock' = [lock EXCEPT !.readers = @ \cup {p}]
    /\ pc' = [pc EXCEPT ![p] = "exec"]
    /\ UNCHANGED <<heap, setup, fsys, cfg, templates, call, bld, ret, sink, installed>>

\* templatesLock.RLock(): blocks while a writer holds or awaits the lock.
RLock(p) ==
    /\ pc[p] = "rlock"
    /\ lock.w = NoProc
    /\ lock' = [lock EXCEPT !.readers = @ \cup {p}]
    /\ pc' = [pc EXCEPT ![p] = "exec"]
    /\ UNCHANGED <<heap, setup, fsys, cfg, templates, call, bld, ret, sink, installed>>

\* Mutant of Execute: d_block takes the read lock again, which blocks once a
\* writer has announced itself.
ExecuteRLockAgain(p) ==
    /\ pc[p] = "exec"
    /\ lock.w = NoProc
    /\ LET r == LookupAndExecute(call[p].name, call[p].override, call[p].data, templates, cfg)
       IN  /\ ret' = [ret EXCEPT ![p] = [done |-> FALSE, err |-> r.err, val |-> NilValue,
                                         lookupName |-> r.lookupName, execName |-> r.execName,
                                         executed |-> r.executed, log |-> <<>>]]
           /\ sink' = [sink EXCEPT ![p] = r.out]
    /\ pc' = [pc EXCEPT ![p] = "runlock"]
    /\ UNCHANGED <<heap, setup, fsys, cfg, templates, lock, call, bld, installed>>

\* ExecuteTemplate, lines 412-460, under the read lock.
Execute(p) ==
    /\ pc[p] = "exec"
    /\ LET r == LookupAndExecute(call[p].name, call[p].override, call[p].data, templates, cfg)
       IN  /\ ret' = [ret EXCEPT ![p] = [done |-> FALSE, err |-> r.err, val |-> NilValue,
                                         lookupName |-> r.lookupName, execName |-> r.execName,
                                         executed |-> r.executed, log |-> <<>>]]
           /\ sink' = [sink EXCEPT ![p] = r.out]
    /\ pc' = [pc EXCEPT ![p] = "runlock"]
    /\ UNCHANGED <<heap, setup, fsys, cfg, templates, lock, call, bld, installed>>

\* The deferred templatesLock.RUnlock(); ExecuteTemplate returns.
RUnlock(p) ==
    /\ pc[p] = "runlock"
    /\ lock' = [lock EXCEPT !.readers = @ \ {p}]
    /\ ret' = [ret EXCEPT ![p].done = TRUE]
    /\ pc' = [pc EXCEPT ![p] = "done"]
    /\ UNCHANGED <<heap, setup, fsys, cfg, templates, call, bld, sink, installed>>

\* RenderBlockAsHTMLString called by the application, lines 465-488: it takes
\* no lock and reads t.templates as it is.
CallRenderBlock(p, names, datas) ==
    /\ pc[p] = "idle"
    /\ \E n \in names, d \in datas :
        LET r == RenderBlockAsHTMLString(n, d, templates, cfg.DisableSafeHTML)
        IN  /\ call' = [call EXCEPT ![p] = [op |-> "RenderBlockAsHTMLString", name |-> n,
                                            override |-> NoOverride, data |-> d,
                                            attempt |-> "none", before |-> EmptyMap]]
            /\ ret' = [ret EXCEPT ![p] = [done |-> TRUE, err |-> r.err, val |-> r.val,
                                          lookupName |-> n, execName |-> n,
                                          executed |-> r.executed, log |-> <<>>]]
    /\ pc' = [pc EXCEPT ![p] = "done"]
    /\ UNCHANGED <<heap, setup, fsys, cfg, templates, lock, bld, sink, installed>>

\* RenderBlockAsHTMLStringWithContext called by the application, lines
\* 492-498: like RenderBlockAsHTMLString, without a lock.
CallRenderBlockWithContext(p, names, datas) ==
    /\ pc[p] = "idle"
    /\ \E n \in names, d \in datas :
        LET r == RenderBlockAsHTMLStringWithContext(n, d, templates, cfg.DisableSafeHTML)
        IN  /\ call' = [call EXCEPT ![p] = [op |-> "RenderBlockAsHTMLStringWithContext",
                                            name |-> n, override |-> NoOverride, data |-> d,
                                            attempt |-> "none", before |-> EmptyMap]]
            /\ ret' = [ret EXCEPT ![p] = [done |-> TRUE, err |-> r.err, val |-> r.val,
                                          lookupName |-> n, execName |-> n,
                                          executed |-> r.executed, log |-> r.log]]
    /\ pc' = [pc EXCEPT ![p] = "done"]
    /\ UNCHANGED <<heap, setup, fsys, cfg, templates, lock, bld, sink, installed>>

\* The variables of the caller the pointers point to: heap[a] is the cell
\* at address a.
CallerHeap == <<IntV(42), Str(<<"s">>)>>

\* The cells a call allocated are unreachable once its result is dropped.
Collect(h) == IF Len(h) > Len(CallerHeap) THEN SubSeq(h, 1, Len(CallerHeap)) ELSE h

\* The caller has taken the returned values: the frame of the call is gone.
Return(p) ==
    /\ pc[p] = "done"
    /\ pc' = [pc EXCEPT ![p] = "idle"]
    /\ call' = [call EXCEPT ![p] = NoCall]
    /\ ret' = [ret EXCEPT ![p] = NoRet]
    /\ sink' = [sink EXCEPT ![p] = <<>>]
    /\ heap' = Collect(heap)
    /\ UNCHANGED <<setup, fsys, cfg, templates, lock, bld, installed>>

\* The panic of MustParseTemplates has unwound to a deferred recover() of
\* the caller.
Recover(p) ==
    /\ pc[p] = "panicked"
    /\ pc' = [pc EXCEPT ![p] = "idle"]
    /\ call' = [call EXCEPT ![p] = NoCall]
    /\ ret' = [ret EXCEPT ![p] = NoRet]
    /\ UNCHANGED <<heap, setup, fsys, cfg, templates, lock, bld, sink, installed>>

\* A helper function called by goroutine p with the value v: the frame of
\* the call and what it returned and logged.
HelperCall(p, op, v, val, log) ==
    /\ pc[p] = "idle"
    /\ call' = [call EXCEPT ![p] = [NoCall EXCEPT !.op = op, !.data = v]]
    /\ ret' = [ret EXCEPT ![p] = [NoRet EXCEPT !.done = TRUE, !.val = val, !.log = log]]
    /\ pc' = [pc EXCEPT ![p] = "done"]

\* trusted_html .. trusted_identifier as registered in the function table.
CallTrusted(p, inputs) ==
    /\ \E i \in 1..Len(TrustedNames), v \in inputs :
          HelperCall(p, TrustedNames[i], v, TrustedHelper(i, v, cfg), <<>>)
    /\ UNCHANGED <<heap, setup, fsys, cfg, templates, lock, bld, sink, installed>>

\* trusted_html_ctx .. trusted_identifier_ctx as registered in the function
\* table; without DisableSafeHTML their parameter is a string.
CallTrustedCtx(p, inputs) ==
    /\ \E i \in 1..Len(TrustedCtxNames), v \in inputs :
          /\ cfg.DisableSafeHTML \/ v.kind = "string"
          /\ HelperCall(p, TrustedCtxNames[i], v,
                        TrustedCtxHelper(i, v, cfg).val, TrustedCtxHelper(i, v, cfg).log)
    /\ UNCHANGED <<heap, setup, fsys, cfg, templates, lock, bld, sink, installed>>

\* locals k1 v1 ... in a template, or Locals(...) from Go.
CallLocals(p, argLists) ==
    /\ \E args \in argLists : HelperCall(p, "locals", args, Locals(args), <<>>)
    /\ UNCHANGED <<heap, setup, fsys, cfg, templates, lock, bld, sink, installed>>

\* references k1 v1 ... in a template, or References(...) from Go.
CallReferences(p, argLists) ==
    /\ \E args \in argLists :
          /\ HelperCall(p, "references", args, References(args, heap).m, <<>>)
          /\ heap' = References(args, heap).heap
    /\ UNCHANGED <<setup, fsys, cfg, templates, lock, bld, sink, installed>>

\* The value written through a pointer of the map.
Written == IntV(100)

\* p.Name = "modified" on a stored pointer p: the holder of the map writes
\* through it.
WriteThrough(p) ==
    /\ pc[p] = "done"
    /\ call[p].op = "references"
    /\ \E k \in DOMAIN ret[p].val :
          /\ ret[p].val[k].kind = "ptr"
          /\ ret[p].val[k].n \in 1..Len(heap)
          /\ heap[ret[p].val[k].n] # Written
          /\ heap' = [heap EXCEPT ![ret[p].val[k].n] = Written]
    /\ UNCHANGED <<setup, fsys, cfg, templates, lock, pc, call, bld, ret, sink, installed>>

\* The template files are edited on disk between, or during, operations.
EditFiles(fileSystems) ==
    /\ fsys' \in fileSystems \ {fsys}
    /\ UNCHANGED <<heap, setup, cfg, templates, lock, pc, call, bld, ret, sink, installed>>

(***************************************************************************)
(* Inputs                                                                  *)
(***************************************************************************)
test == "test"
strict == <<"_","s","t","r","i","c","t">>
nope == <<"n","o","p","e">>

Config(reload, disableSafeHTML, defaultLayout) ==
    [AlwaysReloadAndParseTemplates |-> reload,
     DisableSafeHTML |-> disableSafeHTML,
     DefaultLayout |-> defaultLayout,
     DisableTrustedLog |-> FALSE]

WithDisableTrustedLog(c, disabled) == [c EXCEPT !.DisableTrustedLog = disabled]

\* Directory trees for the compilation: every combination of a layouts, a
\* pages and a blocks directory below.
BuildLayoutDirs ==
    { MissingDir,
      DirOf({}),
      DirOf({Entry(application, LayoutFile)}),
      DirOf({Entry(application, LayoutFile), Entry(special, LayoutFile)}),
      DirOf({Entry(application, LayoutFile), Other(notes, LayoutFile)}),
      DirOf({Entry(application, LayoutFile), Entry(NoName, LayoutFile)}) }

BuildPageDirs ==
    { DirOf({}),
      DirOf({Entry(home, PageFile)}),
      DirOf({Entry(home, PageDBlock(header)), Entry(errorName, PageFile)}),
      DirOf({Entry(home, BrokenFile)}),
      DirOf({Entry(home, PageFile), Entry(errorName, BrokenFile)}) }

BuildBlockDirs ==
    { DirOf({}),
      DirOf({Entry(header, BlockFile(header))}),
      DirOf({Entry(header, BlockFile(header)), Other(notes, BlockFile(actual))}),
      DirOf({Entry(mismatch, BlockFile(actual))}),
      DirOf({Entry(mismatch, BlockFile(Underscore \o mismatch))}),
      DirOf({Entry(Underscore \o dup, BlockFile(Underscore \o dup)),
             Entry(dup, BlockFile(Underscore \o dup))}),
      DirOf({Entry(header, BlockFile(header)), Entry(strict, BrokenFile)}),
      MissingDir }

BuildFileSystems ==
    {FS(l, g, b) : l \in BuildLayoutDirs, g \in BuildPageDirs, b \in BuildBlockDirs}

BuildConfigs == {Config(FALSE, d, application) : d \in BOOLEAN}

\* Directory trees for rendering: the scenario of the specification with a
\* page named error and a block that needs data; the same with a page file
\* named just ".gohtml"; the same with the page home broken.
StdLayouts == DirOf({Entry(application, LayoutFile), Entry(special, LayoutFile)})
StdBlocks  == DirOf({Entry(header, BlockFile(header)), Entry(strict, StrictBlock(strict))})

RenderFileSystems ==
    { FS(StdLayouts,
         DirOf({Entry(home, PageDBlock(header)), Entry(errorName, PageFile)}),
         StdBlocks),
      FS(StdLayouts,
         DirOf({Entry(home, PageDBlock(strict)), Entry(NoName, PageFile)}),
         StdBlocks),
      FS(StdLayouts,
         DirOf({Entry(home, BrokenFile), Entry(errorName, PageFile)}),
         StdBlocks) }

RenderNames ==
    { home, Colon \o home, application \o Colon \o home, special \o Colon \o home,
      header, strict, NoName, errorName, nope, Colon \o nope, nope \o Colon \o home,
      Underscore \o nope, Underscore, Underscore \o nope \o Colon \o home,
      SubSeq(header, 2, Len(header)),
      LongBlockName(MaxBlockNameLen),
      LongBlockName(MaxBlockNameLen + 1) }

RenderOverrides == {NoOverride, Override(special), Override(NoName), Override(Underscore \o nope)}

RenderDatas == {NilData, test}

RenderConfigs == {Config(FALSE, d, l) : d \in BOOLEAN, l \in {application, NoName}}

\* The small inputs of the concurrent specification.
ConcFileSystems ==
    { FS(DirOf({Entry(application, LayoutFile)}),
         DirOf({Entry(home, PageDBlock(header))}),
         DirOf({Entry(header, BlockFile(header))})),
      FS(DirOf({Entry(application, LayoutFile)}),
         DirOf({Entry(home, PageDBlock(header))}),
         DirOf({Entry(header, BlockFile(actual))})) }

ConcNames == {home, header}

ConcConfigs == {Config(r, FALSE, application) : r \in BOOLEAN}

(***************************************************************************)
(* Specifications                                                          *)
(***************************************************************************)
\* Spec: NumProcs goroutines render, rebuild and dispatch blocks while the
\* files change.
Init == InitWith(ConcFileSystems, ConcConfigs)

Next ==
    \/ \E p \in Procs :
        \/ CallParseTemplates(p)
        \/ LockAnnounce(p)
        \/ LockAcquire(p)
        \/ ParseReset(p)
        \/ ParseFill(p)
        \/ Unlock(p)
        \/ CallExecuteTemplate(p, ConcNames, {NoOverride}, {test})
        \/ RLock(p)
        \/ Execute(p)
        \/ RUnlock(p)
        \/ CallRenderBlock(p, ConcNames, {test})
        \/ Return(p)
    \/ EditFiles(ConcFileSystems)

Spec == Init /\ [][Next]_vars

\* SpecLock: every way out of ParseTemplates, MustParseTemplates and
\* ExecuteTemplate.  The trees: one that builds and renders, one whose block
\* file fails the build, one whose page calls a block that does not exist.
LockFileSystems ==
    { FS(DirOf({Entry(application, LayoutFile)}),
         DirOf({Entry(home, PageDBlock(header))}),
         DirOf({Entry(header, BlockFile(header))})),
      FS(DirOf({Entry(application, LayoutFile)}),
         DirOf({Entry(home, PageDBlock(header))}),
         DirOf({Entry(header, BlockFile(actual))})),
      FS(DirOf({Entry(application, LayoutFile)}),
         DirOf({Entry(home, PageDBlock(nope))}),
         DirOf({Entry(header, BlockFile(header))})) }

InitLock == InitWith(LockFileSystems, ConcConfigs)

NextLock ==
    \E p \in Procs :
        \/ CallParseTemplates(p)
        \/ CallMustParseTemplates(p)
        \/ LockAnnounce(p)
        \/ LockAcquire(p)
        \/ ParseReset(p)
        \/ ParseFill(p)
        \/ Unlock(p)
        \/ CallExecuteTemplate(p, {home, nope}, {NoOverride}, {test})
        \/ RLock(p)
        \/ Execute(p)
        \/ RUnlock(p)
        \/ Return(p)
        \/ Recover(p)

SpecLock == InitLock /\ [][NextLock]_vars

\* SpecFair: Spec with the scheduling the Go runtime provides.  A goroutine
\* that is inside a call keeps running (weak fairness of its steps); a
\* goroutine blocked in Lock or RLock is not overtaken for ever, since
\* sync.Mutex hands the lock to a starving waiter and Unlock of the RWMutex
\* releases the readers blocked at that moment (strong fairness of the two
\* acquisitions).  Nothing obliges the application to start a call, to take
\* a result or to edit a file.
\* The step of goroutine p out of the loops of parseTemplates.  ParseFill(p)
\* is enabled exactly when pc[p] = "fill" and is the only action that takes p
\* from "fill" to "unlock", so fairness of FillStep(p) is fairness of
\* ParseFill(p).
FillStep(p) == pc[p] = "fill" /\ pc' = [pc EXCEPT ![p] = "unlock"]

Fairness ==
    \A p \in Procs :
        /\ SF_vars(LockAnnounce(p))
        /\ WF_vars(LockAcquire(p))
        /\ WF_vars(ParseReset(p))
        /\ WF_pc(FillStep(p))
        /\ WF_vars(Unlock(p))
        /\ SF_vars(RLock(p))
        /\ WF_vars(Execute(p))
        /\ WF_vars(RUnlock(p))

\* The files of SpecFair do not change: a page that calls d_block, one
\* layout, one block.
FairFileSystems ==
    { FS(DirOf({Entry(application, LayoutFile)}),
         DirOf({Entry(home, PageDBlock(header))}),
         DirOf({Entry(header, BlockFile(header))})) }

InitFair == InitWith(FairFileSystems, ConcConfigs)

NextFair ==
    \E p \in Procs :
        \/ CallParseTemplates(p)
        \/ LockAnnounce(p)
        \/ LockAcquire(p)
        \/ ParseReset(p)
        \/ ParseFill(p)
        \/ Unlock(p)
        \/ CallExecuteTemplate(p, {home}, {NoOverride}, {test})
        \/ RLock(p)
        \/ Execute(p)
        \/ RUnlock(p)
        \/ Return(p)

SpecFair == InitFair /\ [][NextFair]_vars /\ Fairness

\* SpecBuild: one goroutine compiles every directory tree of
\* BuildFileSystems.
InitBuild == InitWith(BuildFileSystems, BuildConfigs)

NextBuild ==
    \E p \in {1} :
        \/ CallParseTemplates(p)
        \/ LockAnnounce(p)
        \/ LockAcquire(p)
        \/ ParseReset(p)
        \/ ParseFill(p)
        \/ Unlock(p)
        \/ Return(p)

SpecBuild == InitBuild /\ [][NextBuild]_vars

\* SpecRender: one goroutine builds and renders every name of RenderNames
\* under every override, datum and configuration.
InitRender == InitWith(RenderFileSystems, RenderConfigs)

NextRender ==
    \E p \in {1} :
        \/ CallParseTemplates(p)
        \/ LockAnnounce(p)
        \/ LockAcquire(p)
        \/ ParseReset(p)
        \/ ParseFill(p)
        \/ Unlock(p)
        \/ CallExecuteTemplate(p, RenderNames, RenderOverrides, RenderDatas)
        \/ RLock(p)
        \/ Execute(p)
        \/ RUnlock(p)
        \/ CallRenderBlock(p, RenderNames, RenderDatas)
        \/ CallRenderBlockWithContext(p, RenderNames, RenderDatas)
        \/ Return(p)

SpecRender == InitRender /\ [][NextRender]_vars

\* SpecSetup: the construction of the engine over the function tables a
\* caller can pass, with the helpers switched on or off.
CallerFuncNames ==
    {"d_block", "d_block_ctx", "trusted_html", "trusted_url_ctx", "locals", "references", "my_func"}

CallerFuncMaps == {[n \in S |-> Func("caller", "func() {}")] : S \in SUBSET CallerFuncNames}

SetupConfigs == {Config(FALSE, d, application) : d \in BOOLEAN}

InitSetup ==
    /\ InitFields({FS(StdLayouts, DirOf({Entry(home, PageFile)}), StdBlocks)}, SetupConfigs)
    /\ \E fm \in CallerFuncMaps, a \in BOOLEAN : setup = Unconstructed(fm, a)
    /\ heap = EmptyMap

NextSetup ==
    \/ New
    \/ CallAddFuncMapHelpers

SpecSetup == InitSetup /\ [][NextSetup]_vars

\* SpecHelpers: one goroutine calls the template helper functions.
LongText(n) == [i \in 1..n |-> IF i % 7 = 1 THEN "<" ELSE "a"]

HelperInputs ==
    { GoNil, Str(<<>>), Str(<<"<","b",">","x","<","/","b",">">>),
      Str(LongText(PreviewLen)), Str(LongText(PreviewLen + 1)),
      IntV(42), IntV(7), Ptr(0), Ptr(1) }

HelperConfigs ==
    {WithDisableTrustedLog(Config(FALSE, d, application), l) : d \in BOOLEAN, l \in BOOLEAN}

InitHelpers ==
    /\ InitFields({FS(StdLayouts, DirOf({Entry(home, PageFile)}), StdBlocks)}, HelperConfigs)
    /\ setup = Constructed(EmptyMap, TRUE, cfg.DisableSafeHTML)
    /\ heap = CallerHeap

\* Longest argument list of Locals and References.
MaxArgs == 4

ArgValues == {IntV(1), Str(<<"1">>), GoNil, Ptr(1)}

RECURSIVE SeqsUpTo(_, _)
SeqsUpTo(S, n) ==
    IF n = 0 THEN {<<>>}
    ELSE LET shorter == SeqsUpTo(S, n - 1)
         IN  shorter \cup {Append(q, x) : q \in {r \in shorter : Len(r) = n - 1}, x \in S}

ArgLists == SeqsUpTo(ArgValues, MaxArgs)

NextHelpers ==
    \E p \in {1} :
        \/ CallTrusted(p, HelperInputs)
        \/ CallTrustedCtx(p, HelperInputs)
        \/ CallLocals(p, ArgLists)
        \/ CallReferences(p, ArgLists)
        \/ WriteThrough(p)
        \/ Return(p)

SpecHelpers == InitHelpers /\ [][NextHelpers]_vars

(***************************************************************************)
(* Properties                                                              *)
(***************************************************************************)
StartsWith(s, c) == Len(s) > 0 /\ s[1] = c

HasColonLater(s) == \E i \in 2..Len(s) : s[i] = ":"

\* The logical names of the template files of a directory: the file names
\* ending in ".gohtml", without that ending.
Stems(dir) ==
    {SubSeq(n, 1, Len(n) - 7) :
        n \in {m \in DOMAIN dir.files :
                  Len(m) >= 7 /\ SubSeq(m, Len(m) - 6, Len(m)) = <<".","g","o","h","t","m","l">>}}

Underscored(b) == IF StartsWith(b, "_") THEN b ELSE <<"_">> \o b

ExpectedKeys(L, P, B) ==
    {l \o <<":">> \o g : l \in L, g \in P}
        \cup {<<":">> \o g : g \in P}
        \cup {Underscored(b) : b \in B}

\* ParseTemplates has returned nil to goroutine p.
Built(p) == pc[p] = "done" /\ call[p].op = "ParseTemplates" /\ ret[p].err = NoErr

\* ExecuteTemplate of goroutine p has resolved, looked up and executed, and
\* still holds the read lock.
Rendered(p) == pc[p] = "runlock" /\ call[p].op = "ExecuteTemplate"

\* RenderBlockAsHTMLString has returned to goroutine p.
Dispatched(p) == pc[p] = "done" /\ call[p].op = "RenderBlockAsHTMLString"

\* The layout an implicit name is rendered in: the one of the request
\* context if there is one, the configured default otherwise.
LayoutFor(p) ==
    IF call[p].override.set THEN call[p].override.layout ELSE cfg.DefaultLayout

\* C1: after a successful ParseTemplates over non-empty sets of layouts L,
\* pages P and blocks B, the keys of the registry are exactly the l:p, the :p
\* and the underscore-prefixed block names, and nothing else.
Thm_C1 ==
    \A p \in Procs :
        LET L == Stems(fsys.layouts)
            P == Stems(fsys.pages)
            B == Stems(fsys.blocks)
        IN  (Built(p) /\ L # {} /\ P # {} /\ B # {})
                => DOMAIN templates = ExpectedKeys(L, P, B)

\* The scenario of the specification: layouts application and special, page
\* home, block _header give exactly four keys.
Wit_C1 ==
    /\ Built(1)
    /\ Stems(fsys.layouts) = {application, special}
    /\ Stems(fsys.pages) = {home}
    /\ Stems(fsys.blocks) = {header}
    /\ DOMAIN templates = { <<"a","p","p","l","i","c","a","t","i","o","n",":","h","o","m","e">>,
                            <<"s","p","e","c","i","a","l",":","h","o","m","e">>,
                            <<":","h","o","m","e">>,
                            <<"_","h","e","a","d","e","r">> }

\* C2: when a rebuild ends in an error, the registry in effect is the one
\* that was in effect before the rebuild began.
CE_C2 ==
    \A p \in Procs :
        (pc[p] = "unlock" /\ bld[p].err # NoErr) => templates = bld[p].pre

\* C3: the key set a render looks up in is the key set of the registry a
\* completed successful build produced (or of the registry the engine was
\* constructed with), never that of a partly built one.
CE_C3 ==
    \A p \in Procs :
        pc[p] = "exec" => DOMAIN templates \in {DOMAIN r : r \in installed}

\* C4: for a non-empty name, the lookup key and the entry point are those of
\* the first of the four shapes the name has (leading "_", leading ":", ":"
\* elsewhere, none of these), and the decision leaves the registry alone.
C4Key(p) ==
    LET n == call[p].name
    IN  IF StartsWith(n, "_") \/ StartsWith(n, ":") \/ HasColonLater(n)
        THEN n
        ELSE LayoutFor(p) \o <<":">> \o n

C4Entry(p) ==
    LET n == call[p].name
    IN  IF StartsWith(n, "_") THEN n
        ELSE IF StartsWith(n, ":") THEN <<"p","a","g","e">>
        ELSE <<"l","a","y","o","u","t">>

Thm_C4 ==
    [][\A p \in Procs :
          (pc[p] = "exec" /\ pc'[p] = "runlock" /\ call[p].name # <<>>)
              => /\ ret'[p].lookupName = C4Key(p)
                 /\ ret'[p].execName = C4Entry(p)
                 /\ templates' = templates]_vars

\* A page-only name and an implicit name under an override have been resolved.
Wit_C4 ==
    /\ Rendered(1)
    /\ call[1].name = <<"h","o","m","e">>
    /\ call[1].override = Override(special)
    /\ ret[1].lookupName = <<"s","p","e","c","i","a","l",":","h","o","m","e">>
    /\ ret[1].execName = layoutEntry
    /\ ret[1].executed

ImplicitShape(n) == ~StartsWith(n, "_") /\ \A i \in 1..Len(n) : n[i] # ":"

\* What the render of goroutine p resolved to, and what the explicit name
\* layout:name resolves to.
Resolved(p) == [lookupName |-> ret[p].lookupName, execName |-> ret[p].execName]

\* C5 as claimed: an implicit name resolves like layout:name for every
\* override and every default layout; other names ignore the override.
CE_C5 ==
    \A p \in Procs :
        Rendered(p) =>
            IF ImplicitShape(call[p].name)
            THEN Resolved(p) = ResolveName(LayoutFor(p) \o <<":">> \o call[p].name,
                                           NoOverride, cfg.DefaultLayout)
            ELSE Resolved(p) = ResolveName(call[p].name, NoOverride, cfg.DefaultLayout)

\* A layout name that keeps layout:name in the explicit-layout shape.
PlainLayout(l) == l # <<>> /\ ~StartsWith(l, "_") /\ ~StartsWith(l, ":")

\* C5 as amended: the same, for a layout (the override, or the default when
\* there is none) that is not empty and starts with neither "_" nor ":".
Thm_C5 ==
    \A p \in Procs :
        Rendered(p) =>
            IF ImplicitShape(call[p].name)
            THEN PlainLayout(LayoutFor(p))
                    => Resolved(p) = ResolveName(LayoutFor(p) \o <<":">> \o call[p].name,
                                                 NoOverride, cfg.DefaultLayout)
            ELSE Resolved(p) = ResolveName(call[p].name, NoOverride, cfg.DefaultLayout)

\* home under the override special has been rendered as special:home.
Wit_C5 ==
    /\ Rendered(1)
    /\ call[1].name = home
    /\ call[1].override = Override(special)
    /\ cfg.DefaultLayout = application
    /\ ret[1].lookupName = special \o Colon \o home
    /\ ret[1].err = NoErr

Thm_C7 ==
    \A p \in Procs :
        (Rendered(p) /\ C4Key(p) \notin DOMAIN templates) =>
            /\ ret[p].err.kind = "ErrTemplateNotFound"
            /\ ret[p].err.key = C4Key(p)
            /\ ~ret[p].executed
            /\ sink[p] = <<>>

\* An implicit name has missed under the default layout.
Wit_C7 ==
    /\ Rendered(1)
    /\ call[1].name = nope
    /\ call[1].override = NoOverride
    /\ templates # EmptyMap
    /\ ret[1].err = ErrTemplateNotFound(application \o Colon \o nope)

TooLongError == RenderBlockAsHTMLString(LongBlockName(256), test, templates, cfg.DisableSafeHTML).err

\* C9 as claimed: the rejection of a name without underscore and the
\* rejection of a name of 256 bytes differ in the kind of the error.
CE_C9 ==
    \A p \in Procs :
        (Dispatched(p) /\ ~StartsWith(call[p].name, "_"))
            => ret[p].err.kind # TooLongError.kind

\* C9 as amended: both rejections have the same kind, ErrInvalidBlockName,
\* which is not the kind of a miss; they differ in the message only.
Thm_C9 ==
    \A p \in Procs :
        /\ (Dispatched(p) /\ ~StartsWith(call[p].name, "_"))
              => /\ ret[p].err.kind = "ErrInvalidBlockName"
                 /\ ret[p].err.kind = TooLongError.kind
                 /\ ret[p].err.detail # TooLongError.detail
        /\ (Dispatched(p) /\ StartsWith(call[p].name, "_") /\ Len(call[p].name) >= 256)
              => /\ ret[p].err.kind = "ErrInvalidBlockName"
                 /\ ret[p].err.kind # ErrBlockNotFound(call[p].name).kind

\* A name of 256 bytes has been rejected.
Wit_C9 ==
    /\ Dispatched(1)
    /\ StartsWith(call[1].name, "_")
    /\ Len(call[1].name) = 256
    /\ ret[1].err.kind = "ErrInvalidBlockName"

\* What ExecuteTemplate does for the same name and data on the registry.
ViaExecuteTemplate(p) ==
    LookupAndExecute(call[p].name, NoOverride, call[p].data, templates, cfg)

OnlyBlockOutput(out) ==
    \A i \in 1..Len(out) :
        /\ out[i].entry # <<"l","a","y","o","u","t">>
        /\ out[i].entry # <<"p","a","g","e">>
        /\ SubSeq(out[i].src, 1, 7) = <<"b","l","o","c","k","s","/">>

ValidBlockName(n) == StartsWith(n, "_") /\ Len(n) <= 255

BuildEnded(p) == pc[p] = "done" /\ call[p].op = "ParseTemplates"

Listable(fs) == ~fs.layouts.missing /\ ~fs.pages.missing /\ ~fs.blocks.missing

\* C11 as claimed: with zero layout files in the layouts directory the build
\* fails with "you need at least one layout", whatever the pages and blocks.
CE_C11 ==
    \A p \in Procs :
        (BuildEnded(p) /\ ~fsys.layouts.missing /\ Stems(fsys.layouts) = {})
            => ret[p].err = ErrNoLayout

\* C11 as amended: the same, provided the three directories can be listed;
\* a directory that cannot be listed is reported before the layouts are
\* counted.
Thm_C11 ==
    \A p \in Procs :
        /\ (BuildEnded(p) /\ Listable(fsys) /\ Stems(fsys.layouts) = {})
              => /\ ret[p].err = ErrNoLayout
                 /\ ret[p].err.detail = "you need at least one layout"
                 /\ templates = EmptyMap
        /\ (BuildEnded(p) /\ ~Listable(fsys))
              => ret[p].err.detail \in {"reading layout files", "reading pages",
                                         "reading shared blocks"}
        /\ (BuildEnded(p) /\ Listable(fsys) /\ Stems(fsys.layouts) # {})
              => ret[p].err # ErrNoLayout

\* No layouts, a page that does not parse and a block: the layout error.
Wit_C11 ==
    /\ BuildEnded(1)
    /\ fsys.layouts = DirOf({})
    /\ fsys.pages = DirOf({Entry(home, BrokenFile)})
    /\ fsys.blocks = DirOf({Entry(header, BlockFile(header))})
    /\ ret[1].err = ErrNoLayout

\* The build of goroutine p ended with the error of the block check,
\* lines 349-351.
BlockFileError(p) ==
    /\ BuildEnded(p)
    /\ ret[p].err.detail = "block already defined as key or filename doesn't match a definition"

\* C12: when a block file does not define the name expected from its file
\* name, the error of the build names the file and the definition name that
\* was found in the file.
CE_C12 ==
    \A p \in Procs :
        (BlockFileError(p) /\ ret[p].err.key \in DOMAIN fsys.blocks.files) =>
            LET f == fsys.blocks.files[ret[p].err.key]
                expected == Underscored(SubSeq(ret[p].err.key, 1, Len(ret[p].err.key) - 7))
            IN  expected \notin f.defines => ret[p].err.aux \in f.defines

\* Every template file of the directory parses.
AllParse(dir) ==
    \A n \in DOMAIN dir.files :
        (Len(n) >= 7 /\ SubSeq(n, Len(n) - 6, Len(n)) = <<".","g","o","h","t","m","l">>)
            => dir.files[n].ok

\* The build gets as far as the loop over the block files.
ReachesBlocks(fs) ==
    /\ Listable(fs)
    /\ Stems(fs.layouts) # {}
    /\ AllParse(fs.layouts) /\ AllParse(fs.pages) /\ AllParse(fs.blocks)

\* The block files whose key (the underscore-prefixed stem) is k.
BlockFilesOfKey(fs, k) ==
    {n \in DOMAIN fs.blocks.files :
        /\ Len(n) >= 7
        /\ SubSeq(n, Len(n) - 6, Len(n)) = <<".","g","o","h","t","m","l">>
        /\ Underscored(SubSeq(n, 1, Len(n) - 7)) = k}

\* C13: when two block files yield the same key, the build fails with the
\* error of the block check, whichever of the two is processed first: it is
\* raised for the file processed second, and the key holds no unit of it.
Thm_C13 ==
    \A p \in Procs :
        (BuildEnded(p) /\ ReachesBlocks(fsys)
            /\ \E n \in DOMAIN fsys.blocks.files :
                  \E k \in fsys.blocks.files[n].defines :
                      /\ Cardinality(BlockFilesOfKey(fsys, k)) = 2
                      /\ \A m \in BlockFilesOfKey(fsys, k) : k \in fsys.blocks.files[m].defines)
            => /\ BlockFileError(p)
               /\ Cardinality(BlockFilesOfKey(fsys, Underscored(ret[p].err.aux))) = 2
               /\ ret[p].err.key \in BlockFilesOfKey(fsys, Underscored(ret[p].err.aux))

\* The files _dup and dup both define "_dup"; dup was listed first, and the
\* error is raised for _dup.
Wit_C13 ==
    /\ BuildEnded(1)
    /\ DOMAIN fsys.blocks.files = { <<"_","d","u","p",".","g","o","h","t","m","l">>,
                                    <<"d","u","p",".","g","o","h","t","m","l">> }
    /\ fsys.pages = DirOf({Entry(home, PageFile)})
    /\ BlockFileError(1)
    /\ ret[1].err.key = <<"_","d","u","p",".","g","o","h","t","m","l">>

\* C14: a successful build holds one unit per source, |L|*|P| + |P| + |B|
\* in all: two sources never end up under one key.
CE_C14 ==
    \A p \in Procs :
        Built(p) =>
            LET L == Stems(fsys.layouts)
                P == Stems(fsys.pages)
                B == Stems(fsys.blocks)
            IN  Cardinality(DOMAIN templates)
                    = Cardinality(L) * Cardinality(P) + Cardinality(P) + Cardinality(B)

HelperSet == {HelperNames[i] : i \in 1..Len(HelperNames)}

Collides(fm) == DOMAIN fm \cap HelperSet # {}

\* C15 as claimed: when the caller's function table holds a helper name,
\* setup panics; when it holds none, every helper name is in the table
\* after setup.
CE_C15 ==
    /\ (setup.pc # "new" /\ Collides(setup.caller)) => setup.pc = "panicked"
    /\ (setup.pc = "ready" /\ ~Collides(setup.caller)) => HelperSet \subseteq DOMAIN setup.funcMap

\* C15 as amended: the same while AddHeadlessCMSFuncMapHelpers is true, its
\* default; the panic names a helper name that was in the table, no function
\* of the caller is ever replaced, and with the flag false setup adds
\* nothing and never panics.
Thm_C15 ==
    /\ \A n \in DOMAIN setup.caller :
          n \in DOMAIN setup.funcMap /\ setup.funcMap[n] = setup.caller[n]
    /\ (setup.pc # "new" /\ setup.AddHeadlessCMSFuncMapHelpers /\ Collides(setup.caller))
          => /\ setup.pc = "panicked"
             /\ setup.panic \in HelperSet \cap DOMAIN setup.caller
    /\ setup.pc = "panicked"
          => /\ setup.AddHeadlessCMSFuncMapHelpers
             /\ setup.panic \in HelperSet \cap DOMAIN setup.given
             /\ setup.funcMap[setup.panic] = setup.given[setup.panic]
    /\ (setup.pc = "ready" /\ setup.AddHeadlessCMSFuncMapHelpers)
          => /\ ~Collides(setup.caller)
             /\ DOMAIN setup.funcMap = HelperSet \cup DOMAIN setup.caller
             /\ \A h \in HelperSet : setup.funcMap[h] = HelperFunc(h, cfg.DisableSafeHTML)
    /\ (setup.pc # "new" /\ ~setup.AddHeadlessCMSFuncMapHelpers)
          => setup.pc = "ready" /\ setup.funcMap = setup.caller

\* New has panicked on the caller's locals, after it had added d_block.
Wit_C15 ==
    /\ setup.pc = "panicked"
    /\ DOMAIN setup.caller = {"locals", "my_func"}
    /\ setup.panic = "locals"
    /\ setup.funcMap["locals"].owner = "caller"
    /\ "d_block" \in DOMAIN setup.funcMap

\* The positions of a goroutine inside a rebuild.
RebuildPositions == {"lock", "lock_wait", "reset", "fill", "unlock"}

\* The step in which goroutine p enters ExecuteTemplate.
EntersExecuteTemplate(p) == pc[p] = "idle" /\ call'[p].op = "ExecuteTemplate"

CE_C17 ==
    \A p \in Procs :
        (call[p].op = "ExecuteTemplate" /\ cfg.AlwaysReloadAndParseTemplates
            /\ call[p].attempt # "skipped_writer")
            => call[p].attempt = "rebuild"

RenderOps == {"ExecuteTemplate", "RenderBlockAsHTMLString"}

\* A step of goroutine p inside a render operation.
RenderStep(p) == pc'[p] # pc[p] /\ (call[p].op \in RenderOps \/ call'[p].op \in RenderOps)

\* C18: in static mode no step of a render operation changes the registry,
\* takes the write lock or enters a rebuild; ExecuteTemplate holds the read
\* lock while it looks up and executes.
Thm_C18 ==
    [][\A p \in Procs :
          (~cfg.AlwaysReloadAndParseTemplates /\ RenderStep(p))
              => /\ templates' = templates
                 /\ installed' = installed
                 /\ lock'.w = lock.w
                 /\ pc'[p] \notin RebuildPositions
                 /\ call'[p].attempt = "none"
                 /\ (pc'[p] \in {"exec", "runlock"}) => p \in lock'.readers]_vars

\* In static mode, home has been rendered from the registry of the build.
Wit_C18 ==
    /\ ~cfg.AlwaysReloadAndParseTemplates
    /\ Rendered(1)
    /\ call[1].name = home
    /\ ret[1].executed /\ ret[1].err = NoErr
    /\ templates \in installed \ {EmptyMap}

\* C19: when the rebuild a render of always-reload mode has run fails,
\* ExecuteTemplate returns the error of the build once it has released the
\* lock; it has looked up and executed nothing and written nothing.
Thm_C19 ==
    [][\A p \in Procs :
          (pc[p] = "unlock" /\ pc'[p] # "unlock"
              /\ call[p].op = "ExecuteTemplate" /\ bld[p].err # NoErr)
              => /\ cfg.AlwaysReloadAndParseTemplates
                 /\ call[p].attempt = "rebuild"
                 /\ pc'[p] = "done"
                 /\ ret'[p].done
                 /\ ret'[p].err = bld[p].err
                 /\ ret'[p].err.kind = "BuildError"
                 /\ ~ret'[p].executed
                 /\ ret'[p].lookupName = <<>>
                 /\ sink'[p] = <<>>
                 /\ lock'.w = NoProc /\ p \notin lock'.readers]_vars

\* ExecuteTemplate has returned the error of the block check.
Wit_C19 ==
    /\ pc[1] = "done"
    /\ call[1].op = "ExecuteTemplate"
    /\ call[1].name = home
    /\ ret[1].err = ErrBlockFile(header \o fileExtension, header)
    /\ ~ret[1].executed
    /\ sink[1] = <<>>

\* RenderBlockAsHTMLStringWithContext has returned to goroutine p.
DispatchedWithContext(p) ==
    pc[p] = "done" /\ call[p].op = "RenderBlockAsHTMLStringWithContext"

\* What RenderBlockAsHTMLString returns for the arguments of goroutine p.
Plain(p) == RenderBlockAsHTMLString(call[p].name, call[p].data, templates, cfg.DisableSafeHTML)

\* C20 as claimed: the context-aware dispatcher returns the value and the
\* error of RenderBlockAsHTMLString and writes a log entry on each call.
CE_C20 ==
    \A p \in Procs :
        DispatchedWithContext(p) =>
            /\ ret[p].val = Plain(p).val
            /\ ret[p].err = Plain(p).err
            /\ Len(ret[p].log) = 1

\* C20 as amended: it returns the value and the error of
\* RenderBlockAsHTMLString; it writes one log entry, at error level, with the
\* block name and the error, when the call fails, and none when it succeeds.
Thm_C20 ==
    \A p \in Procs :
        DispatchedWithContext(p) =>
            /\ ret[p].val = Plain(p).val
            /\ ret[p].err = Plain(p).err
            /\ ret[p].executed = Plain(p).executed
            /\ IF ret[p].err = NoErr
               THEN ret[p].log = <<>>
               ELSE /\ Len(ret[p].log) = 1
                    /\ ret[p].log[1].level = "ERROR"
                    /\ ret[p].log[1].msg = "d_block_ctx failed"
                    /\ ret[p].log[1].block = call[p].name
                    /\ ret[p].log[1].error = ret[p].err

\* The block _header has been dispatched with a context and nothing was
\* logged.
Wit_C20 ==
    /\ DispatchedWithContext(1)
    /\ call[1].name = header
    /\ call[1].data = test
    /\ ret[1].err = NoErr
    /\ ret[1].val.s # <<>>
    /\ ret[1].log = <<>>

\* The index of a name in a sequence of names, 0 when it is not in it.
IndexIn(names, n) ==
    IF \E i \in 1..Len(names) : names[i] = n
    THEN CHOOSE i \in 1..Len(names) : names[i] = n
    ELSE 0

HelperDone(p, names) == pc[p] = "done" /\ IndexIn(names, call[p].op) # 0

NilText == <<"<","n","i","l",">">>

\* The string representation of the inputs, written out.
TextOf(v) ==
    IF v = Str(<<>>) THEN <<>>
    ELSE IF v.kind = "string" THEN v.s
    ELSE IF v = IntV(42) THEN <<"4","2">>
    ELSE IF v = IntV(7) THEN <<"7">>
    ELSE IF v = Ptr(0) THEN NilText
    ELSE IF v = Ptr(1) THEN <<"0","x","c","0","0","0","1">>
    ELSE NilText

\* C22: each of the seven converters wraps the empty string for a nil input
\* and exactly the string representation of any other input, in the trusted
\* type of its sink.
Thm_C22 ==
    \A p \in Procs :
        (HelperDone(p, TrustedNames) /\ ~cfg.DisableSafeHTML) =>
            LET i == IndexIn(TrustedNames, call[p].op)
                v == call[p].data
            IN  /\ ret[p].val.type = TrustedTypes[i]
                /\ ret[p].val.s = IF v = GoNil THEN <<>> ELSE TextOf(v)
                /\ ret[p].log = <<>>

\* trusted_url has been called with nil.
Wit_C22 ==
    /\ HelperDone(1, TrustedNames)
    /\ call[1].op = "trusted_url"
    /\ call[1].data = GoNil
    /\ ret[1].val = [type |-> "safehtml.URL", s |-> <<>>]

\* The first 50 bytes of a text followed by "..." when it has more.
Preview(t) == IF Len(t) <= 50 THEN t ELSE [i \in 1..53 |-> IF i <= 50 THEN t[i] ELSE "."]

\* C21 as claimed: a context-aware converter returns what its plain
\* counterpart returns and logs one entry with its name and the truncated
\* content, or nothing when DisableTrustedLog is set.
CE_C21 ==
    \A p \in Procs :
        HelperDone(p, TrustedCtxNames) =>
            LET i == IndexIn(TrustedCtxNames, call[p].op)
                v == call[p].data
            IN  /\ ret[p].val = TrustedHelper(i, v, cfg)
                /\ IF cfg.DisableTrustedLog
                   THEN ret[p].log = <<>>
                   ELSE /\ Len(ret[p].log) = 1
                        /\ ret[p].log[1].helper = call[p].op
                        /\ ret[p].log[1].value = Preview(TextOf(v))

\* C21 as amended: value and number of entries as claimed.  The entry of
\* the HTML, Script, Style and StyleSheet converters names the converter and
\* holds the content truncated to 50 bytes; the entry of the URL, ResourceURL
\* and Identifier converters names the converter and holds the content in
\* full; in pass-through mode the entry names "trusted_helper_ctx" for all
\* seven and holds the truncated string form of the input.
Thm_C21 ==
    \A p \in Procs :
        HelperDone(p, TrustedCtxNames) =>
            LET i == IndexIn(TrustedCtxNames, call[p].op)
                v == call[p].data
            IN  /\ ret[p].val = TrustedHelper(i, v, cfg)
                /\ cfg.DisableSafeHTML => ret[p].val = v
                /\ IF cfg.DisableTrustedLog
                   THEN ret[p].log = <<>>
                   ELSE /\ Len(ret[p].log) = 1
                        /\ ret[p].log[1].level = "INFO"
                        /\ IF cfg.DisableSafeHTML
                           THEN /\ ret[p].log[1].helper = "trusted_helper_ctx"
                                /\ ret[p].log[1].key = "content_preview"
                                /\ ret[p].log[1].value = Preview(TextOf(v))
                           ELSE /\ ret[p].log[1].helper = call[p].op
                                /\ IF i <= 4
                                   THEN /\ ret[p].log[1].key = "content_preview"
                                        /\ ret[p].log[1].value = Preview(TextOf(v))
                                   ELSE /\ ret[p].log[1].key
                                            = (IF i = 7 THEN "identifier" ELSE "url")
                                        /\ ret[p].log[1].value = TextOf(v)

\* trusted_html_ctx has logged the preview of a content of 51 bytes.
Wit_C21 ==
    /\ HelperDone(1, TrustedCtxNames)
    /\ call[1].op = "trusted_html_ctx"
    /\ ~cfg.DisableSafeHTML /\ ~cfg.DisableTrustedLog
    /\ Len(call[1].data.s) = 51
    /\ Len(ret[1].log) = 1
    /\ Len(ret[1].log[1].value) = 53
    /\ ret[1].val = [type |-> "safehtml.HTML", s |-> call[1].data.s]

\* The i-th key/value pair of an argument list.
PairCount(args) == Len(args) \div 2
KeyAt(args, i) == Sprint(args[2 * i - 1])
ValueAt(args, i) == args[2 * i]

KeySet(args) == {KeyAt(args, i) : i \in 1..PairCount(args)}

\* The last pair of the list whose key has the string form k.
LastIndexOf(args, k) ==
    CHOOSE i \in 1..PairCount(args) :
        /\ KeyAt(args, i) = k
        /\ \A j \in (i + 1)..PairCount(args) : KeyAt(args, j) # k

LocalsDone(p) == pc[p] = "done" /\ call[p].op = "locals"

LocalsResult(args, m) ==
    /\ DOMAIN m = KeySet(args)
    /\ \A k \in DOMAIN m : m[k] = ValueAt(args, LastIndexOf(args, k))

\* C23: for an even-length argument list k1,v1,...,kn,vn Locals returns the
\* map whose keys are exactly the string forms of the ki and in which each
\* key maps to its vi, the last one for a repeated key; the call leaves the
\* arguments, and the variables pointer arguments point to, as they were.
Thm_C23 ==
    [][\A p \in Procs :
         (pc[p] = "idle" /\ pc'[p] = "done" /\ call'[p].op = "locals")
         => /\ heap' = heap
            /\ Len(call'[p].data) % 2 = 0
                 => LocalsResult(call'[p].data, ret'[p].val)]_vars

\* Locals has returned for four arguments whose keys 1 and "1" have the same
\* string form and different values: one key, mapped to the later value.
Wit_C23 ==
    \E p \in Procs :
        /\ LocalsDone(p)
        /\ Len(call[p].data) = 4
        /\ call[p].data[1] = IntV(1)
        /\ call[p].data[3] = Str(<<"1">>)
        /\ call[p].data[2] # call[p].data[4]
        /\ DOMAIN ret[p].val = {<<"1">>}
        /\ ret[p].val[<<"1">>] = call[p].data[4]

ReferencesDone(p) == pc[p] = "done" /\ call[p].op = "references"

\* The argument the key k of the result stands for.
ArgOf(args, k) == ValueAt(args, LastIndexOf(args, k))

Boxed(args, k) == ArgOf(args, k).kind \notin {"nil", "ptr"}

\* What References(args) has to return in m, h being the heap before the
\* call and h2 the heap after it.
ReferencesResult(args, m, h, h2) ==
    /\ DOMAIN m = DOMAIN Locals(args)
    /\ SubSeq(h2, 1, Len(h)) = h
    /\ \A k \in DOMAIN m :
          /\ ArgOf(args, k).kind = "nil" => m[k] = GoNil
          /\ ArgOf(args, k).kind = "ptr" => m[k] = ArgOf(args, k)
          /\ Boxed(args, k) =>
                /\ m[k].kind = "ptr"
                /\ m[k].n \in (Len(h) + 1)..Len(h2)
                /\ h2[m[k].n] = ArgOf(args, k)
    /\ \A k1, k2 \in DOMAIN m :
          (Boxed(args, k1) /\ Boxed(args, k2) /\ k1 # k2) => m[k1].n # m[k2].n

\* C24: References builds the key set of Locals for the same arguments; a
\* pointer argument is stored as that same pointer, a nil argument as nil,
\* and any other argument as a pointer to a fresh cell holding a copy of it.
\* A write through a stored pointer changes one cell only, and a cell of
\* the caller only if a pointer to that cell was passed in: the arguments and
\* the caller's other variables keep their values.
Thm_C24 ==
    [][\A p \in Procs :
         /\ (pc[p] = "idle" /\ pc'[p] = "done" /\ call'[p].op = "references")
            => ReferencesResult(call'[p].data, ret'[p].val, heap, heap')
         /\ (ReferencesDone(p) /\ pc'[p] = "done" /\ heap' # heap)
            => /\ call'[p] = call[p]
               /\ ret'[p] = ret[p]
               /\ Len(heap') = Len(heap)
               /\ \A a \in 1..Len(heap) :
                     heap'[a] # heap[a]
                     => /\ \E k \in DOMAIN ret[p].val : ret[p].val[k] = Ptr(a)
                        /\ \A b \in 1..Len(heap) : b # a => heap'[b] = heap[b]
                        /\ a <= Len(CallerHeap)
                             => \E i \in 1..PairCount(call[p].data) :
                                    ValueAt(call[p].data, i) = Ptr(a)]_vars

\* References has returned a map with a boxed int and the caller's pointer;
\* the holder of the map has written through the box, and the argument and
\* the caller's variable still have their values.
Wit_C24 ==
    \E p \in Procs :
        /\ ReferencesDone(p)
        /\ \E k1, k2 \in DOMAIN ret[p].val :
              /\ ArgOf(call[p].data, k1) = IntV(1)
              /\ ret[p].val[k1].kind = "ptr"
              /\ heap[ret[p].val[k1].n] = Written
              /\ ArgOf(call[p].data, k2) = Ptr(1)
              /\ ret[p].val[k2] = Ptr(1)
              /\ heap[1] = CallerHeap[1]

\* The render of p has rebuilt the registry itself, without error, and has
\* not yet looked its template up: it is between Unlock (line 402) and the
\* lookup under RLock (lines 409-444).
OwnRebuildDone(p) ==
    /\ call[p].op = "ExecuteTemplate"
    /\ call[p].attempt = "rebuild"
    /\ pc[p] \in {"rlock", "exec"}

\* C25: in always-reload mode, between the end of a render's own successful
\* rebuild and its lookup no other rebuild replaces or empties the registry,
\* so the render looks up and executes against the registry it built.
CE_C25 ==
    [][\A p \in Procs : OwnRebuildDone(p) => templates' = templates]_vars

\* The goroutines inside parseTemplates under the write lock, and the
\* goroutines of ExecuteTemplate under the read lock.
Rebuilding == {p \in Procs : pc[p] \in {"reset", "fill", "unlock"}}
Reading == {p \in Procs : pc[p] \in {"exec", "runlock"}}

\* C26: at most one rebuild is in flight, whoever started it; no lookup or
\* execution of ExecuteTemplate runs while a rebuild is in flight; and a
\* render about to take the read lock is held up by a writer only, never by
\* the renders that are reading.
Thm_C26 ==
    /\ Cardinality(Rebuilding) <= 1
    /\ Rebuilding # {} => Reading = {}
    /\ \A p \in Rebuilding : lock.w = p /\ lock.readers = {}
    /\ \A p \in Procs : (pc[p] = "rlock" /\ lock.w = NoProc) => ENABLED RLock(p)

\* A render is rebuilding the registry while another render waits for the
\* read lock, and the first one read the registry together with it before.
Wit_C26 ==
    \E p, q \in Procs :
        /\ p # q
        /\ pc[p] = "fill"
        /\ call[p].op = "ExecuteTemplate"
        /\ pc[q] = "rlock"
        /\ call[q].op = "ExecuteTemplate"

\* C27: a ParseTemplates call that waits for the write lock gets it, and
\* every ParseTemplates and ExecuteTemplate call that has been entered
\* returns: there is no deadlock, also not when a render evaluates d_block
\* while a rebuild waits for the write lock.
Thm_C27 ==
    \A p \in Procs :
        /\ (pc[p] = "lock") ~> (pc[p] = "reset")
        /\ (pc[p] \notin {"idle", "done"}) ~> (pc[p] = "done")

\* ParseTemplates has announced itself and waits for the readers to drain
\* while a render is about to evaluate the page that calls d_block.
Wit_C27 ==
    \E p, q \in Procs :
        /\ pc[p] = "lock_wait"
        /\ call[p].op = "ParseTemplates"
        /\ pc[q] = "exec"
        /\ call[q].name = home
        /\ (application \o PageKey(home)) \in DOMAIN templates

\* Goroutine p reads t.templates in this step as a direct call of
\* RenderBlockAsHTMLString.
DirectBlockRead(p) ==
    /\ pc[p] = "idle"
    /\ pc'[p] = "done"
    /\ call'[p].op = "RenderBlockAsHTMLString"

\* C28: every read of the registry by a public operation happens under the
\* read lock or the write lock, so no read falls between the writes of a
\* rebuild: when a goroutine reads, no other goroutine is inside
\* parseTemplates.
CE_C28 ==
    [][\A p \in Procs : DirectBlockRead(p) => Rebuilding = {}]_vars

\* The goroutines that are in no call, or in one that has returned or
\* panicked.
Outside == {p \in Procs : pc[p] \in {"idle", "done", "panicked"}}

\* The way a finished call of p ended.
ExitPath(p) ==
    IF pc[p] = "panicked" THEN "panic"
    ELSE IF pc[p] # "done" THEN "none"
    ELSE IF call[p].op \in {"ParseTemplates", "MustParseTemplates"}
    THEN (IF ret[p].err = NoErr THEN "success" ELSE "build error")
    ELSE IF ret[p].err = NoErr THEN "success"
    ELSE IF ret[p].err.kind = "BuildError" THEN "reload error"
    ELSE IF ~ret[p].executed THEN "not found"
    ELSE "execution error"

\* C29: a call that has returned or panicked holds no lock, whichever way it
\* ended; the write lock belongs to a goroutine inside Lock..Unlock and the
\* read lock to goroutines inside RLock..RUnlock only; so when no call is in
\* progress the lock is free, and a ParseTemplates that comes then can take
\* it.
Thm_C29 ==
    /\ \A p \in Outside : lock.w # p /\ p \notin lock.readers
    /\ lock.w # NoProc => pc[lock.w] \in {"lock_wait", "reset", "fill", "unlock"}
    /\ \A p \in lock.readers : pc[p] \in {"exec", "runlock"}
    /\ Outside = Procs => lock = FreeLock
    /\ \A p \in Procs : (Outside = Procs \ {p} /\ pc[p] = "lock") => ENABLED LockAnnounce(p)

\* MustParseTemplates has panicked on a build error and another call has
\* ended with an execution error or a reload error; the lock is free.
Wit_C29 ==
    \E p, q \in Procs :
        /\ ExitPath(p) = "panic"
        /\ ExitPath(q) \in {"execution error", "reload error"}
        /\ lock = FreeLock

\* The entry point that goes with the shape of a string.
EntryFor(k) ==
    IF StartsWith(k, "_") THEN k
    ELSE IF StartsWith(k, ":") THEN pageEntry
    ELSE layoutEntry

\* C30 as claimed: the shape of the lookup key determines the entry point,
\* also when the layout part of the key is a contextual override or the
\* default layout, an empty one included.
CE_C30 ==
    \A p \in Procs :
        Rendered(p) => ret[p].execName = EntryFor(ret[p].lookupName)

\* C30 as amended: the shape of the requested name determines the entry
\* point.  The shape of the key determines it too when the name carries its
\* own shape or the layout put before it is not empty and starts with
\* neither "_" nor ":"; otherwise the key is layout ":" name and the entry is
\* "layout", whatever the key looks like.
Thm_C30 ==
    \A p \in Procs :
        Rendered(p) =>
            /\ ret[p].execName = EntryFor(call[p].name)
            /\ (~ImplicitShape(call[p].name) \/ PlainLayout(LayoutFor(p)))
                  => ret[p].execName = EntryFor(ret[p].lookupName)
            /\ (ImplicitShape(call[p].name) /\ ~PlainLayout(LayoutFor(p)))
                  => /\ ret[p].lookupName = LayoutFor(p) \o Colon \o call[p].name
                     /\ ret[p].execName = layoutEntry

\* home has been rendered under the empty override: the key :home was found
\* and executed at the entry "layout".
Wit_C30 ==
    /\ Rendered(1)
    /\ call[1].name = home
    /\ call[1].override = Override(NoName)
    /\ ret[1].lookupName = Colon \o home
    /\ ret[1].execName = layoutEntry
    /\ ret[1].executed
====
